---- MODULE Spec2Model ----
(***************************************************************************)
(* Model of the shared shopping-list application (ShoppingList.tsx and the *)
(* views around it).  The remote store (tables, change feed) is the        *)
(* environment; the React component state, its closures, pending requests  *)
(* and timers are the program state.                                       *)
(***************************************************************************)
EXTENDS Integers, Sequences, FiniteSets, Bags, TLC

VARIABLES
    \* ---- remote store (environment) ----
    remote,          \* rows of table shopping_list 
    nextId,          \* serial primary key of the next inserted row
    clock,           \* created_at given to the last inserted row (microseconds)
    notifs,          \* change notifications on their way to this client (FIFO)
    \* ---- ShoppingList component state ----
    items,           \* useState items: the visible collection
    loading,         \* useState loading
    addingItem,      \* useState addingItem
    updatingItems,   \* useState updatingItems
    deletingItems,   \* useState deletingItems
    \* ---- asynchronous work of the component ----
    fetches,         \* fetchItems calls whose await has not resumed (a bag)
    reqs,            \* insert/update/delete calls whose await has not resumed
    timers,          \* pending setTimeout callbacks of the mutation handlers
    \* ---- ShoppingList effect: change feed, reconnect, poll ----
    mounted,         \* the component is mounted
    connectionStatus,\* useState connectionStatus
    closures,        \* one entry per run of the effect: its retryCount and channel
    channels,        \* every channel setupRealtime created: its closure, live or removed
    reconnects,      \* pending setTimeout(setupRealtime, ...) callbacks (a bag)
    seenBy,          \* channels that have handled the oldest undelivered notification
    lost,            \* notifications the feed moved past with no channel handling them
    attempts,        \* setupRealtime calls since the last SUBSCRIBED, the first not counted
    \* ---- bookkeeping ----
    budget,          \* user / other-user operations still allowed (bounds the run)
    \* ---- UserList (presence) ----
    ulVersion,       \* which of the two presence implementations is mounted
    session,         \* the user of the auth session, "none" without one
    ulMounted,       \* the UserList component is mounted
    ulStage,         \* position of getCurrentUser: "getUser" awaited or "done"
    currentUser,     \* useState currentUser (an id, "none" for null)
    users,           \* useState users
    channelState,    \* useState channel: "null" or "set"
    presenceChannel, \* the presence channel: "none", "joining", "subscribed", "closed"
    presence,        \* presenceState() of the channel at the last sync
    \* ---- ProductCatalog ----
    catalog,         \* rows of table product_catalog
    catNotifs,       \* product_catalog change notifications not yet delivered
    products,        \* useState products
    catLoading,      \* useState loading of ProductCatalog
    searchTerm,      \* useState searchTerm
    selectedCategory,\* useState selectedCategory
    deletingProducts,\* useState deletingProducts
    catFetches,      \* fetchProducts calls whose await has not resumed (a bag)
    catReqs,         \* product_catalog deletes whose await has not resumed
    prompts,         \* the answers given to the confirm() dialogs, in order
    showForm,        \* useState showForm
    editingProduct,  \* useState editingProduct: <<>> for null, else <<product>>
    formData,        \* useState formData
    saving,          \* useState saving
    saveReqs,        \* product_catalog inserts / updates whose await has not resumed
    \* ---- Auth form ----
    authMounted,     \* the Auth form is rendered (no user in the shell)
    email,           \* useState email
    password,        \* useState password
    authLoading,     \* useState loading of Auth
    message,         \* useState message
    isLogin,         \* useState isLogin
    authReqs,        \* signInWithPassword / signUp calls not yet resumed
    signedIn,        \* the provider holds a session created from this form
    \* ---- ShoppingApp (the shell) ----
    providerSession, \* the user of the provider's current session, "none" without
    getSessionReq,   \* the getSession() call of the mount effect
    authEvents,      \* auth-state-change events not yet given to the listener
    appUser,         \* useState user of ShoppingApp (an id, "none" for null)
    appSession,      \* useState session (its user, "none" for null)
    appLoading,      \* useState loading of ShoppingApp
    activeView       \* useState activeView

rtVars == <<mounted, connectionStatus, closures, channels, reconnects, seenBy,
            lost, attempts>>

shopVars == <<remote, nextId, clock, notifs, items, loading, addingItem,
              updatingItems, deletingItems, fetches, reqs, timers, budget, rtVars>>

ulVars == <<ulVersion, session, ulMounted, ulStage, currentUser, users,
            channelState, presenceChannel, presence>>

formVars == <<showForm, editingProduct, formData, saving, saveReqs>>

catVars == <<catalog, catNotifs, products, catLoading, searchTerm, selectedCategory,
             deletingProducts, catFetches, catReqs, prompts, formVars>>

authVars == <<authMounted, email, password, authLoading, message, isLogin,
              authReqs, signedIn>>

shellVars == <<providerSession, getSessionReq, authEvents, appUser, appSession,
               appLoading, activeView>>

\* the views next to the shopping list, and the shell around them
viewVars == <<ulVars, catVars, authVars, shellVars>>

vars == <<shopVars, viewVars>>

(***************************************************************************)
(* Bounds                                                                  *)
(***************************************************************************)
MaxId == 2
MaxFetch == 2
MaxOps == 2
MaxEffects == 3
MaxChannels == 6
MaxPending == 2
MaxToggles == 4
MaxProducts == 2
MaxPrompts == 2
MaxEvents == 2

Ids == 1..MaxId
Me == "u1"
Other == "u2"
Users == {Me, Other}
\* created_at values the server clock can hand out, in microseconds
Times == {1000, 1400, 2000}
\* form inputs, as sequences of characters
FormTexts == {<<>>, <<" ">>, <<" ", "a">>}
FormQuantities == {<<>>, <<" ">>}

(***************************************************************************)
(* Pure helpers                                                            *)
(***************************************************************************)
RECURSIVE TrimStart(_)
TrimStart(s) == IF s # <<>> /\ Head(s) = " " THEN TrimStart(Tail(s)) ELSE s

RECURSIVE TrimEnd(_)
TrimEnd(s) ==
    IF s # <<>> /\ s[Len(s)] = " " THEN TrimEnd(SubSeq(s, 1, Len(s) - 1)) ELSE s

\* String.prototype.trim
Trim(s) == TrimEnd(TrimStart(s))

\* { ...item, ...patch }
Merge(item, patch) ==
    [f \in (DOMAIN item) \cup (DOMAIN patch) |->
        IF f \in DOMAIN patch THEN patch[f] ELSE item[f]]

\* prevItems.map(item => item.id === id ? { ...item, ...patch } : item)
PatchById(list, id, patch) ==
    [i \in 1..Len(list) |->
        IF list[i].id = id THEN Merge(list[i], patch) ELSE list[i]]

\* prevItems.filter(item => item.id !== id)
FilterOutId(list, id) == SelectSeq(list, LAMBDA it : it.id # id)

\* prev.filter(itemId => itemId !== id)
WithoutId(list, id) == SelectSeq(list, LAMBDA x : x # id)

\* new Date(created_at).getTime(): milliseconds, the microseconds are dropped
getTime(created_at) == created_at \div 1000

\* comparator of the revert: b.getTime() - a.getTime()
compareDesc(a, b) == getTime(b.created_at) - getTime(a.created_at)

\* one step of a stable sort: x goes after every element not ordered after it
RECURSIVE InsertStable(_, _)
InsertStable(sorted, x) ==
    IF sorted = <<>> THEN <<x>>
    ELSE IF compareDesc(sorted[Len(sorted)], x) <= 0
         THEN Append(sorted, x)
         ELSE Append(InsertStable(SubSeq(sorted, 1, Len(sorted) - 1), x),
                     sorted[Len(sorted)])

\* Array.prototype.sort with compareDesc (stable)
RECURSIVE SortDesc(_)
SortDesc(list) ==
    IF list = <<>> THEN <<>>
    ELSE InsertStable(SortDesc(SubSeq(list, 1, Len(list) - 1)), list[Len(list)])

\* items.find(item => item.id === id), as a sequence: <<>> stands for undefined
Find(list, id) ==
    IF \E i \in 1..Len(list) : list[i].id = id
    THEN <<list[CHOOSE i \in 1..Len(list) :
                   list[i].id = id /\ \A j \in 1..(i - 1) : list[j].id # id]>>
    ELSE <<>>

IdsOf(list) == {list[i].id : i \in 1..Len(list)}
Count(list, id) == Cardinality({i \in 1..Len(list) : list[i].id = id})

(***************************************************************************)
(* Remote store                                                            *)
(***************************************************************************)
Email(u) == <<u, "@", "x">>

\* select('*, profiles:user_id(email)'): the row with the joined owner email
Joined(row) == Merge(row, [profiles |-> [email |-> Email(row.user_id)]])

\* .order('created_at', { ascending: false }) over the whole table
RECURSIVE Snapshot(_)
Snapshot(rows) ==
    IF rows = {} THEN <<>>
    ELSE LET newest == CHOOSE r \in rows : \A q \in rows : q.created_at <= r.created_at
         IN  <<Joined(newest)>> \o Snapshot(rows \ {newest})

RowOf(id) == CHOOSE r \in remote : r.id = id
HasRow(id) == \E r \in remote : r.id = id

NewRow(id, t, text, qty, uid) ==
    [id |-> id, created_at |-> t, item |-> text, quantity |-> qty,
     user_id |-> uid, completed |-> FALSE]

\* payloads of the postgres_changes feed; id repeats the row key for the formulas
InsertPayload(row) == [eventType |-> "INSERT", id |-> row.id, new |-> row]
UpdatePayload(row) == [eventType |-> "UPDATE", id |-> row.id, new |-> row]
DeletePayload(id) == [eventType |-> "DELETE", id |-> id, old |-> [id |-> id]]

(***************************************************************************)
(* ShoppingList: fetchItems                                                *)
(***************************************************************************)
\* a call of fetchItems(): the select is sent, the await is pending
PendingFetch == [st |-> "sent", data |-> <<>>]
fetchItems == fetches (+) SetToBag({PendingFetch})

InFlight == BagToSet(fetches)
CanFetch == BagCardinality(fetches) < MaxFetch

\* the remote store answers a select with a snapshot of the table
ServeFetch(f) ==
    /\ f \in InFlight /\ f.st = "sent"
    /\ fetches' = (fetches (-) SetToBag({f}))
                     (+) SetToBag({[st |-> "data", data |-> Snapshot(remote)]})
    /\ UNCHANGED <<remote, nextId, clock, notifs, items, loading, addingItem,
                   updatingItems, deletingItems, reqs, timers, budget>>
    /\ UNCHANGED <<rtVars, viewVars>>

\* the remote store answers a select with neither error nor rows (data null)
ServeFetchNull(f) ==
    /\ f \in InFlight /\ f.st = "sent"
    /\ fetches' = (fetches (-) SetToBag({f}))
                     (+) SetToBag({[st |-> "null", data |-> <<>>]})
    /\ UNCHANGED <<remote, nextId, clock, notifs, items, loading, addingItem,
                   updatingItems, deletingItems, reqs, timers, budget>>
    /\ UNCHANGED <<rtVars, viewVars>>

\* a fetchItems that empties the collection when the select fails
fetchItemsResumeClearing(f) ==
    /\ f \in InFlight
    /\ items' = IF f.st = "data" /\ mounted THEN f.data ELSE <<>>
    /\ loading' = (loading /\ ~mounted)
    /\ fetches' = fetches (-) SetToBag({f})
    /\ UNCHANGED <<remote, nextId, clock, notifs, addingItem, updatingItems,
                   deletingItems, reqs, timers, budget>>
    /\ UNCHANGED <<rtVars, viewVars>>

\* the rest of fetchItems after the await: data replaces the collection (data
\* || []: an empty collection for null); a
\* select that fails (error result or thrown exception, the store having
\* answered nothing) only logs; finally clears loading.  State setters of an
\* unmounted component do nothing.
fetchItemsResume(f) ==
    /\ f \in InFlight
    /\ items' = IF f.st = "data" /\ mounted THEN f.data
              ELSE IF f.st = "null" /\ mounted THEN <<>>
              ELSE items
    /\ loading' = (loading /\ ~mounted)
    /\ fetches' = fetches (-) SetToBag({f})
    /\ UNCHANGED <<remote, nextId, clock, notifs, addingItem, updatingItems,
                   deletingItems, reqs, timers, budget>>
    /\ UNCHANGED <<rtVars, viewVars>>

\* the refresh button (disabled while loading)
forceRefresh ==
    /\ budget > 0 /\ ~loading /\ CanFetch
    /\ loading' = TRUE
    /\ fetches' = fetchItems
    /\ budget' = budget - 1
    /\ UNCHANGED <<remote, nextId, clock, notifs, items, addingItem,
                   updatingItems, deletingItems, reqs, timers>>
    /\ UNCHANGED <<rtVars, viewVars>>

(***************************************************************************)
(* ShoppingList: addItem                                                   *)
(***************************************************************************)
\* addItem sending the quantity as typed (newQuantity instead of
\* newQuantity.trim())
addItemUntrimmed(text, qty) ==
    /\ budget > 0 /\ ~addingItem
    /\ Trim(text) # <<>>
    /\ addingItem' = TRUE
    /\ reqs' = reqs \cup {[op |-> "insert", id |-> 0, st |-> "sent",
                           row |-> [item |-> Trim(text), quantity |-> qty,
                                    user_id |-> Me]]}
    /\ budget' = budget - 1
    /\ UNCHANGED <<remote, nextId, clock, notifs, items, loading, updatingItems,
                   deletingItems, fetches, timers>>
    /\ UNCHANGED <<rtVars, viewVars>>

\* submit of the add form with the typed text and quantity; the form controls
\* are disabled while addingItem, and a blank text returns early
addItem(text, qty) ==
    /\ budget > 0 /\ ~addingItem
    /\ Trim(text) # <<>>
    /\ addingItem' = TRUE
    /\ reqs' = reqs \cup {[op |-> "insert", id |-> 0, st |-> "sent",
                           row |-> [item |-> Trim(text), quantity |-> Trim(qty),
                                    user_id |-> Me]]}
    /\ budget' = budget - 1
    /\ UNCHANGED <<remote, nextId, clock, notifs, items, loading, updatingItems,
                   deletingItems, fetches, timers>>
    /\ UNCHANGED <<rtVars, viewVars>>

\* the remote store runs the insert (serial id, created_at = now, completed
\* false) and publishes INSERT
ServeInsert(r) ==
    /\ r \in reqs /\ r.op = "insert" /\ r.st = "sent"
    /\ nextId <= MaxId
    /\ \E t \in Times :
          /\ t > clock
          /\ LET row == NewRow(nextId, t, r.row.item, r.row.quantity, r.row.user_id)
             IN  /\ remote' = remote \cup {row}
                 /\ notifs' = Append(notifs, InsertPayload(row))
          /\ clock' = t
    /\ nextId' = nextId + 1
    /\ reqs' = (reqs \ {r}) \cup {[r EXCEPT !.st = "ok", !.id = nextId]}
    /\ UNCHANGED <<items, loading, addingItem, updatingItems, deletingItems,
                   fetches, timers, budget>>
    /\ UNCHANGED <<rtVars, viewVars>>

\* the rest of addItem after the await: on success the form is cleared and a
\* fetch is scheduled 500 ms later; a rejected insert (st still "sent": error
\* result or thrown exception) alerts; finally addingItem off
addItemResume(r) ==
    /\ r \in reqs /\ r.op = "insert"
    /\ timers' = IF r.st = "ok"
                 THEN timers \cup {[kind |-> "fetch", id |-> r.id, cause |-> "add"]}
                 ELSE timers
    /\ addingItem' = FALSE
    /\ reqs' = reqs \ {r}
    /\ UNCHANGED <<remote, nextId, clock, notifs, items, loading, updatingItems,
                   deletingItems, fetches, budget>>
    /\ UNCHANGED <<rtVars, viewVars>>

(***************************************************************************)
(* ShoppingList: updateItem                                                *)
(***************************************************************************)
\* isProcessing of the item render
isProcessing(id) ==
    \/ \E i \in 1..Len(updatingItems) : updatingItems[i] = id
    \/ \E i \in 1..Len(deletingItems) : deletingItems[i] = id

\* the optimistic patch of updateItem
OptimisticUpdate(list, id, updates) == PatchById(list, id, updates)

\* updateItem without its optimistic setItems
updateItemNoOptimistic(id, updates) ==
    /\ items' = items
    /\ updatingItems' = Append(updatingItems, id)
    /\ reqs' = reqs \cup {[op |-> "update", id |-> id, st |-> "sent",
                           updates |-> updates]}

\* updateItem(id, updates) up to the await: optimistic patch, id marked updating
updateItem(id, updates) ==
    /\ items' = OptimisticUpdate(items, id, updates)
    /\ updatingItems' = Append(updatingItems, id)
    /\ reqs' = reqs \cup {[op |-> "update", id |-> id, st |-> "sent",
                           updates |-> updates]}

\* a completion button that stays enabled while its item is processing
ToggleClickWhileProcessing(i) ==
    /\ budget > 0
    /\ i \in 1..Len(items)
    /\ updateItem(items[i].id, [completed |-> ~items[i].completed])
    /\ budget' = budget - 1
    /\ UNCHANGED <<remote, nextId, clock, notifs, loading, addingItem,
                   deletingItems, fetches, timers>>
    /\ UNCHANGED <<rtVars, viewVars>>

\* click on the completion button of the i-th shown item
ToggleClick(i) ==
    /\ budget > 0
    /\ i \in 1..Len(items)
    /\ ~isProcessing(items[i].id)
    /\ updateItem(items[i].id, [completed |-> ~items[i].completed])
    /\ budget' = budget - 1
    /\ UNCHANGED <<remote, nextId, clock, notifs, loading, addingItem,
                   deletingItems, fetches, timers>>
    /\ UNCHANGED <<rtVars, viewVars>>

\* the remote store runs update(updates).eq('id', id) and publishes UPDATE with
\* the new row (no row: nothing changes and nothing is published)
ServeUpdate(r) ==
    /\ r \in reqs /\ r.op = "update" /\ r.st = "sent"
    /\ reqs' = (reqs \ {r}) \cup {[r EXCEPT !.st = "ok"]}
    /\ IF HasRow(r.id)
       THEN LET row == Merge(RowOf(r.id), r.updates)
            IN  /\ remote' = (remote \ {RowOf(r.id)}) \cup {row}
                /\ notifs' = Append(notifs, UpdatePayload(row))
       ELSE UNCHANGED <<remote, notifs>>
    /\ UNCHANGED <<nextId, clock, items, loading, addingItem, updatingItems,
                   deletingItems, fetches, timers, budget>>
    /\ UNCHANGED <<rtVars, viewVars>>

\* updateItem whose error branches only log
updateItemResumeNoRefetch(r) ==
    /\ r \in reqs /\ r.op = "update"
    /\ timers' = timers \cup {[kind |-> "clearUpdating", id |-> r.id, cause |-> ""]}
    /\ reqs' = reqs \ {r}
    /\ UNCHANGED <<remote, nextId, clock, notifs, items, loading, addingItem,
                   updatingItems, deletingItems, fetches, budget>>
    /\ UNCHANGED <<rtVars, viewVars>>

\* the rest of updateItem after the await: a rejected update (st still "sent":
\* error result or thrown exception) schedules a fetch 500 ms later; finally the
\* id is unmarked 1 s later
updateItemResume(r) ==
    /\ r \in reqs /\ r.op = "update"
    /\ timers' = timers
                 \cup (IF r.st # "ok"
                       THEN {[kind |-> "fetch", id |-> r.id, cause |-> "updateError"]}
                       ELSE {})
                 \cup {[kind |-> "clearUpdating", id |-> r.id, cause |-> ""]}
    /\ reqs' = reqs \ {r}
    /\ UNCHANGED <<remote, nextId, clock, notifs, items, loading, addingItem,
                   updatingItems, deletingItems, fetches, budget>>
    /\ UNCHANGED <<rtVars, viewVars>>

(***************************************************************************)
(* ShoppingList: deleteItem                                                *)
(***************************************************************************)
\* the optimistic filter of deleteItem
OptimisticDelete(list, id) == FilterOutId(list, id)

\* deleteItem(id) up to the await: the item is remembered, filtered out of the
\* collection and its id marked deleting
deleteItem(id) ==
    /\ items' = OptimisticDelete(items, id)
    /\ deletingItems' = Append(deletingItems, id)
    /\ reqs' = reqs \cup {[op |-> "delete", id |-> id, st |-> "sent",
                           deletedItem |-> Find(items, id)]}

\* a delete button rendered on every item
DeleteClickAnyOwner(i) ==
    /\ budget > 0
    /\ i \in 1..Len(items)
    /\ ~isProcessing(items[i].id)
    /\ deleteItem(items[i].id)
    /\ budget' = budget - 1
    /\ UNCHANGED <<remote, nextId, clock, notifs, loading, addingItem,
                   updatingItems, fetches, timers>>
    /\ UNCHANGED <<rtVars, viewVars>>

\* click on the delete button of the i-th shown item (rendered for own items)
DeleteClick(i) ==
    /\ budget > 0
    /\ i \in 1..Len(items)
    /\ items[i].user_id = Me
    /\ ~isProcessing(items[i].id)
    /\ deleteItem(items[i].id)
    /\ budget' = budget - 1
    /\ UNCHANGED <<remote, nextId, clock, notifs, loading, addingItem,
                   updatingItems, fetches, timers>>
    /\ UNCHANGED <<rtVars, viewVars>>

\* the remote store runs delete().eq('id', id) and publishes DELETE
ServeDelete(r) ==
    /\ r \in reqs /\ r.op = "delete" /\ r.st = "sent"
    /\ reqs' = (reqs \ {r}) \cup {[r EXCEPT !.st = "ok"]}
    /\ IF HasRow(r.id)
       THEN /\ remote' = remote \ {RowOf(r.id)}
            /\ notifs' = Append(notifs, DeletePayload(r.id))
       ELSE UNCHANGED <<remote, notifs>>
    /\ UNCHANGED <<nextId, clock, items, loading, addingItem, updatingItems,
                   deletingItems, fetches, timers, budget>>
    /\ UNCHANGED <<rtVars, viewVars>>

\* the revert of a failed delete: [...prevItems, deletedItem].sort(...)
RevertDelete(list, deletedItem) ==
    IF deletedItem # <<>> THEN SortDesc(list \o deletedItem) ELSE list

\* the rest of deleteItem after the await: a rejected delete (st still "sent":
\* error result or thrown exception) puts the remembered item back; finally the
\* id is unmarked 1 s later
deleteItemResume(r) ==
    /\ r \in reqs /\ r.op = "delete"
    /\ items' = IF r.st # "ok" THEN RevertDelete(items, r.deletedItem) ELSE items
    /\ timers' = timers \cup {[kind |-> "clearDeleting", id |-> r.id, cause |-> ""]}
    /\ reqs' = reqs \ {r}
    /\ UNCHANGED <<remote, nextId, clock, notifs, loading, addingItem,
                   updatingItems, deletingItems, fetches, budget>>
    /\ UNCHANGED <<rtVars, viewVars>>

(***************************************************************************)
(* ShoppingList: timers of the mutation handlers                           *)
(***************************************************************************)
TimerFires(t) ==
    /\ t \in timers
    /\ timers' = timers \ {t}
    /\ \/ /\ t.kind = "fetch" /\ CanFetch
          /\ fetches' = fetchItems
          /\ UNCHANGED <<updatingItems, deletingItems>>
       \/ /\ t.kind = "clearUpdating"
          /\ updatingItems' = WithoutId(updatingItems, t.id)
          /\ UNCHANGED <<fetches, deletingItems>>
       \/ /\ t.kind = "clearDeleting"
          /\ deletingItems' = WithoutId(deletingItems, t.id)
          /\ UNCHANGED <<fetches, updatingItems>>
    /\ UNCHANGED <<remote, nextId, clock, notifs, items, loading, addingItem,
                   reqs, budget>>
    /\ UNCHANGED <<rtVars, viewVars>>

(***************************************************************************)
(* ShoppingList: postgres_changes handler                                  *)
(***************************************************************************)
\* a handler whose DELETE branch filters by payload.new.id, which a DELETE
\* payload does not carry
ApplyChangeKeepsDeleted(list, payload) ==
    IF payload.eventType = "UPDATE" THEN PatchById(list, payload.new.id, payload.new)
    ELSE list

\* a handler whose UPDATE branch adds the new row instead of replacing by id
ApplyChangeAppends(list, payload) ==
    IF payload.eventType = "UPDATE" THEN Append(list, payload.new)
    ELSE IF payload.eventType = "DELETE" THEN FilterOutId(list, payload.old.id)
    ELSE list

\* a handler whose UPDATE branch flips the shown completion instead of taking
\* the value of the payload
ApplyChangeToggling(list, payload) ==
    IF payload.eventType = "UPDATE"
    THEN [i \in 1..Len(list) |->
            IF list[i].id = payload.new.id
            THEN [list[i] EXCEPT !.completed = ~list[i].completed]
            ELSE list[i]]
    ELSE IF payload.eventType = "DELETE" THEN FilterOutId(list, payload.old.id)
    ELSE list

\* a handler whose INSERT branch puts the new row at the head of the list
ApplyChangeInserting(list, payload) ==
    IF payload.eventType = "UPDATE" THEN PatchById(list, payload.new.id, payload.new)
    ELSE IF payload.eventType = "DELETE" THEN FilterOutId(list, payload.old.id)
    ELSE <<payload.new>> \o list

\* a handler whose UPDATE branch puts the new row in place of the item
ApplyChangeReplacing(list, payload) ==
    IF payload.eventType = "UPDATE"
    THEN [i \in 1..Len(list) |->
            IF list[i].id = payload.new.id THEN payload.new ELSE list[i]]
    ELSE IF payload.eventType = "DELETE" THEN FilterOutId(list, payload.old.id)
    ELSE list

\* what the handler does to the collection
ApplyChange(list, payload) ==
    IF payload.eventType = "UPDATE" THEN PatchById(list, payload.new.id, payload.new)
    ELSE IF payload.eventType = "DELETE" THEN FilterOutId(list, payload.old.id)
    ELSE list

\* the handler on the oldest undelivered notification, delivered once by the
\* one subscribed channel (status already 'connected', retryCount already 0)
OnChange ==
    /\ notifs # <<>>
    /\ LET payload == Head(notifs)
       IN  /\ items' = ApplyChange(items, payload)
           /\ IF payload.eventType = "INSERT"
              THEN CanFetch /\ fetches' = fetchItems
              ELSE UNCHANGED fetches
    /\ notifs' = Tail(notifs)
    /\ UNCHANGED <<remote, nextId, clock, loading, addingItem, updatingItems,
                   deletingItems, reqs, timers, budget>>
    /\ UNCHANGED <<rtVars, viewVars>>

(***************************************************************************)
(* Other users, acting on the remote store                                 *)
(***************************************************************************)
OtherInsert ==
    /\ budget > 0 /\ nextId <= MaxId
    /\ \E t \in Times :
          /\ t > clock
          /\ LET row == NewRow(nextId, t, <<"b">>, <<>>, Other)
             IN  /\ remote' = remote \cup {row}
                 /\ notifs' = Append(notifs, InsertPayload(row))
          /\ clock' = t
    /\ nextId' = nextId + 1
    /\ budget' = budget - 1
    /\ UNCHANGED <<items, loading, addingItem, updatingItems, deletingItems,
                   fetches, reqs, timers>>
    /\ UNCHANGED <<rtVars, viewVars>>

OtherToggle(id) ==
    /\ budget > 0 /\ HasRow(id)
    /\ LET row == Merge(RowOf(id), [completed |-> ~RowOf(id).completed])
       IN  /\ remote' = (remote \ {RowOf(id)}) \cup {row}
           /\ notifs' = Append(notifs, UpdatePayload(row))
    /\ budget' = budget - 1
    /\ UNCHANGED <<nextId, clock, items, loading, addingItem, updatingItems,
                   deletingItems, fetches, reqs, timers>>
    /\ UNCHANGED <<rtVars, viewVars>>

OtherDelete(id) ==
    /\ budget > 0 /\ HasRow(id) /\ RowOf(id).user_id = Other
   
    /\ remote' = remote \ {RowOf(id)}
    /\ notifs' = Append(notifs, DeletePayload(id))
    /\ budget' = budget - 1
    /\ UNCHANGED <<nextId, clock, items, loading, addingItem, updatingItems,
                   deletingItems, fetches, reqs, timers>>
    /\ UNCHANGED <<rtVars, viewVars>>

(***************************************************************************)
(* ShoppingList: the effect (change feed, reconnect, poll, cleanup)        *)
(***************************************************************************)
maxRetries == 3

\* n more calls of fetchItems()
fetchItemsTimes(n) == IF n = 0 THEN fetches ELSE fetches (+) (PendingFetch :> n)

LiveChannels == {ch \in 1..Len(channels) : channels[ch].live}

\* supabase.removeChannel(channel)
removeChannel(chs, ch) == [chs EXCEPT ![ch].live = FALSE]

\* setConnectionStatus(status) at the end of a callback that left the closures
\* cl, the channels chs, the attempt count att and called fetchItems() nf
\* times.  A changed status re-renders and, connectionStatus being a
\* dependency of the effect, runs its cleanup (removeChannel of the closure's
\* channel, clearInterval) and the effect again: fetchItems(), a fresh
\* retryCount, setupRealtime(), a new interval.
setConnectionStatus(status, cl, chs, att, nf) ==
    IF mounted /\ status # connectionStatus
    THEN /\ Len(cl) < MaxEffects /\ Len(chs) < MaxChannels
         /\ BagCardinality(fetches) + nf + 1 <= MaxFetch
         /\ connectionStatus' = status
         /\ channels' = Append(removeChannel(chs, cl[Len(cl)].channel),
                               [owner |-> Len(cl) + 1, live |-> TRUE])
         /\ closures' = Append(cl, [retryCount |-> 0, channel |-> Len(chs) + 1])
         /\ fetches' = fetchItemsTimes(nf + 1)
         /\ attempts' = att + 1
    ELSE /\ BagCardinality(fetches) + nf <= MaxFetch
         /\ UNCHANGED connectionStatus
         /\ channels' = chs
         /\ closures' = cl
         /\ fetches' = fetchItemsTimes(nf)
         /\ attempts' = att

\* the subscribe callback of channel ch, run with the variables of its closure
SubscribeStatus(ch, status) ==
    /\ ch \in LiveChannels
    /\ LET c == channels[ch].owner
           rc == closures[c].retryCount
       IN  \/ /\ status = "SUBSCRIBED"
              /\ setConnectionStatus("connected",
                                     [closures EXCEPT ![c].retryCount = 0],
                                     channels, 0, 0)
              /\ UNCHANGED reconnects
           \/ /\ status \in {"CHANNEL_ERROR", "TIMED_OUT"}
              /\ IF rc < maxRetries
                 THEN /\ BagCardinality(reconnects) < MaxPending
                      /\ reconnects' = reconnects
                            (+) ([owner |-> c, delay |-> 2000 * (rc + 1)] :> 1)
                      /\ setConnectionStatus("disconnected",
                                             [closures EXCEPT ![c].retryCount = rc + 1],
                                             channels, attempts, 0)
                 ELSE /\ UNCHANGED reconnects
                      /\ setConnectionStatus("disconnected", closures, channels,
                                             attempts, 0)
    /\ UNCHANGED viewVars
    /\ UNCHANGED <<remote, nextId, clock, notifs, items, loading, addingItem,
                   updatingItems, deletingItems, reqs, timers, budget, mounted,
                   seenBy, lost>>

\* a pending setTimeout(setupRealtime, ...) fires: the closure of t makes a new
\* channel and keeps it in its channel variable
setupRealtime(t) ==
    /\ t \in BagToSet(reconnects)
    /\ Len(channels) < MaxChannels
    /\ reconnects' = reconnects (-) (t :> 1)
    /\ channels' = Append(channels, [owner |-> t.owner, live |-> TRUE])
    /\ closures' = [closures EXCEPT ![t.owner].channel = Len(channels) + 1]
    /\ attempts' = attempts + 1
    /\ UNCHANGED viewVars
    /\ UNCHANGED <<remote, nextId, clock, notifs, items, loading, addingItem,
                   updatingItems, deletingItems, fetches, reqs, timers, budget,
                   mounted, connectionStatus, seenBy, lost>>

\* the condition under which the interval callback of the current effect run
\* fetches: the connectionStatus its closure captured is 'disconnected'
PollFetches == mounted /\ connectionStatus = "disconnected"

\* a tick of the 2 s interval of the current effect run that does something:
\* the connectionStatus its closure captured is 'disconnected'
pollTick ==
    /\ PollFetches
    /\ setConnectionStatus("polling", closures, channels, attempts, 1)
    /\ UNCHANGED viewVars
    /\ UNCHANGED <<remote, nextId, clock, notifs, items, loading, addingItem,
                   updatingItems, deletingItems, reqs, timers, budget, mounted,
                   reconnects, seenBy, lost>>

\* the component unmounts: the cleanup of the current effect run
unmount ==
    /\ mounted
    /\ mounted' = FALSE
    /\ channels' = removeChannel(channels, closures[Len(closures)].channel)
    /\ UNCHANGED viewVars
    /\ UNCHANGED <<remote, nextId, clock, notifs, items, loading, addingItem,
                   updatingItems, deletingItems, fetches, reqs, timers, budget,
                   connectionStatus, closures, reconnects, seenBy, lost,
                   attempts>>

\* the postgres_changes handler of channel ch on the oldest undelivered
\* notification
OnChangeVia(ch) ==
    /\ notifs # <<>>
    /\ ch \in LiveChannels /\ ch \notin seenBy
    /\ LET payload == Head(notifs)
           c == channels[ch].owner
       IN  /\ items' = IF mounted THEN ApplyChange(items, payload) ELSE items
           /\ setConnectionStatus("connected",
                                  [closures EXCEPT ![c].retryCount = 0],
                                  channels, attempts,
                                  IF payload.eventType = "INSERT" THEN 1 ELSE 0)
    /\ seenBy' = seenBy \cup {ch}
    /\ UNCHANGED viewVars
    /\ UNCHANGED <<remote, nextId, clock, notifs, loading, addingItem,
                   updatingItems, deletingItems, reqs, timers, budget, mounted,
                   reconnects, lost>>

\* the feed moves on: channels that did not handle the notification never will
\* (removed, failed, or hung without reporting a status)
FeedAdvance ==
    /\ notifs # <<>>
    /\ notifs' = Tail(notifs)
    /\ lost' = IF seenBy = {} THEN lost \cup {Head(notifs)} ELSE lost
    /\ seenBy' = {}
    /\ UNCHANGED viewVars
    /\ UNCHANGED <<remote, nextId, clock, items, loading, addingItem,
                   updatingItems, deletingItems, fetches, reqs, timers, budget,
                   mounted, connectionStatus, closures, channels, reconnects,
                   attempts>>

\* the effect state right after mount
InitEffect ==
    /\ mounted = TRUE
    /\ connectionStatus = "connected"
    /\ closures = <<[retryCount |-> 0, channel |-> 1]>>
    /\ channels = <<[owner |-> 1, live |-> TRUE]>>
    /\ reconnects = EmptyBag
    /\ seenBy = {}
    /\ lost = {}
    /\ attempts = 0

(***************************************************************************)
(* UserList: the presence-based list of online users                       *)
(***************************************************************************)
OnlineTimes == {1, 2}

\* what a client tracks on the channel: track({user_id, email, online_at})
PresenceOf(k, t) == [user_id |-> k, email |-> Email(k), online_at |-> t]

\* the presences one key can hold (several tabs of one user)
PresenceLists(k) ==
    {<<>>} \cup {<<PresenceOf(k, t)>> : t \in OnlineTimes}
           \cup {<<PresenceOf(k, t1), PresenceOf(k, t2)>> : t1, t2 \in OnlineTimes}

\* presenceState(): the keys in the order of the object, each with its presences
PresenceStates ==
    {<<>>}
    \cup UNION {{<<[key |-> k, presences |-> ps]>> : ps \in PresenceLists(k)} :
                    k \in Users}
    \cup UNION {UNION {{<<[key |-> k1, presences |-> ps1],
                            [key |-> k2, presences |-> ps2]>> :
                              ps1 \in PresenceLists(k1), ps2 \in PresenceLists(k2)} :
                            k2 \in Users \ {k1}} :
                    k1 \in Users}

\* updateOnlineUsers with the first presence replaced by the last one
RECURSIVE updateOnlineUsersLast(_)
updateOnlineUsersLast(presenceState) ==
    IF presenceState = <<>> THEN <<>>
    ELSE LET e == Head(presenceState)
             p == e.presences[Len(e.presences)]
         IN  (IF Len(e.presences) > 0
              THEN <<[id |-> p.user_id, email |-> p.email,
                      presence_ref |-> e.key, online_at |-> p.online_at]>>
              ELSE <<>>)
             \o updateOnlineUsersLast(Tail(presenceState))

\* updateOnlineUsers: the list built from a membership snapshot
RECURSIVE updateOnlineUsers(_)
updateOnlineUsers(presenceState) ==
    IF presenceState = <<>> THEN <<>>
    ELSE LET e == Head(presenceState)
             first == e.presences[1]
         IN  (IF Len(e.presences) > 0
              THEN <<[id |-> first.user_id, email |-> first.email,
                      presence_ref |-> e.key, online_at |-> first.online_at]>>
              ELSE <<>>)
             \o updateOnlineUsers(Tail(presenceState))

\* the flag of the render with the id comparison left out
IsYouAny(user) == currentUser # "none"

\* the "(Tu)" flag of the render: currentUser && user.id === currentUser.id
IsYou(user) == currentUser # "none" /\ user.id = currentUser

\* getCurrentUser after the await of getUser(): currentUser is set and, with a
\* user, the presence channel is created, subscribed and kept in state (the
\* setters do nothing once unmounted)
getCurrentUserResume ==
    /\ ulStage = "getUser"
    /\ ulStage' = "done"
    /\ currentUser' = IF ulMounted THEN session ELSE currentUser
    /\ IF session # "none"
       THEN /\ presenceChannel' = "joining"
            /\ channelState' = IF ulMounted THEN "set" ELSE channelState
       ELSE UNCHANGED <<presenceChannel, channelState>>
    /\ UNCHANGED <<ulVersion, session, ulMounted, users, presence>>
    /\ UNCHANGED <<shopVars, catVars, authVars, shellVars>>

\* the subscribe callback with SUBSCRIBED: the own presence is tracked
PresenceSubscribed ==
    /\ presenceChannel = "joining"
    /\ presenceChannel' = "subscribed"
    /\ UNCHANGED <<ulVersion, session, ulMounted, ulStage, currentUser, users,
                   channelState, presence>>
    /\ UNCHANGED <<shopVars, catVars, authVars, shellVars>>

\* a presence sync event: the handler reads presenceState() and calls
\* updateOnlineUsers
PresenceSync(newState) ==
    /\ presenceChannel \in {"joining", "subscribed"}
    /\ presence' = newState
    /\ users' = IF ulMounted THEN updateOnlineUsers(newState) ELSE users
    /\ UNCHANGED <<ulVersion, session, ulMounted, ulStage, currentUser,
                   channelState, presenceChannel>>
    /\ UNCHANGED <<shopVars, catVars, authVars, shellVars>>

\* UserList unmounts: the cleanup of the mount effect closes over the channel
\* state of the first render (null); the second implementation has a cleanup
\* effect on [channel] that unsubscribes the channel kept in state
ulUnmount ==
    /\ ulMounted
    /\ ulMounted' = FALSE
    /\ presenceChannel' =
          IF ulVersion = 2 /\ channelState = "set" THEN "closed"
          ELSE presenceChannel
    /\ UNCHANGED <<ulVersion, session, ulStage, currentUser, users,
                   channelState, presence>>
    /\ UNCHANGED <<shopVars, catVars, authVars, shellVars>>

\* UserList right after mount, getUser() awaited
UserListStart ==
    /\ ulMounted = TRUE
    /\ ulStage = "getUser"
    /\ currentUser = "none"
    /\ users = <<>>
    /\ channelState = "null"
    /\ presenceChannel = "none"
    /\ presence = <<>>

InitUserList ==
    /\ ulVersion \in {1, 2}
    /\ session \in {"none"} \cup Users
    /\ UserListStart

(***************************************************************************)
(* ProductCatalog: strings, the search and the category filter             *)
(***************************************************************************)
\* text is a sequence of characters; null is a value that is no text
Null == <<"null">>

\* String.prototype.toLowerCase, character by character
LowerChar(c) == IF c = "A" THEN "a" ELSE IF c = "B" THEN "b"
                ELSE IF c = "X" THEN "x" ELSE c

\* a comparison that keeps the letter case
toLowerCaseIdentity(str) == str

toLowerCase(str) == [i \in 1..Len(str) |-> LowerChar(str[i])]

\* String.prototype.includes: the term occurs at some position of the text
includes(str, term) ==
    \E i \in 0..(Len(str) - Len(term)) : SubSeq(str, i + 1, i + Len(term)) = term

\* matchesSearch of the filter; description?.toLowerCase()... is undefined
\* (falsy) for a null description
matchesSearch(product) ==
    \/ includes(toLowerCase(product.name), toLowerCase(searchTerm))
    \/ /\ product.description # Null
       /\ includes(toLowerCase(product.description), toLowerCase(searchTerm))

\* a category filter that lets products without category through
matchesCategoryOrNone(product) ==
    \/ selectedCategory = <<>>
    \/ product.category = Null
    \/ product.category = selectedCategory

\* matchesCategory of the filter: '' is falsy, === compares exactly
matchesCategory(product) ==
    \/ selectedCategory = <<>>
    \/ product.category = selectedCategory

Shown(product) == matchesSearch(product) /\ matchesCategory(product)

filteredProducts == SelectSeq(products, Shown)

\* the options of the category select: the non-empty categories of the
\* loaded products
categories ==
    {products[i].category : i \in 1..Len(products)} \ {Null, <<>>}

\* typing in the search box
setSearchTerm(term) ==
    /\ searchTerm' = term
    /\ UNCHANGED <<catalog, catNotifs, products, catLoading, selectedCategory,
                   deletingProducts, catFetches, catReqs, prompts>>
    /\ UNCHANGED <<shopVars, ulVars, authVars, shellVars, formVars>>

\* choosing an option of the category select
setSelectedCategory(category) ==
    /\ category \in {<<>>} \cup categories
    /\ selectedCategory' = category
    /\ UNCHANGED <<catalog, catNotifs, products, catLoading, searchTerm,
                   deletingProducts, catFetches, catReqs, prompts>>
    /\ UNCHANGED <<shopVars, ulVars, authVars, shellVars, formVars>>

(***************************************************************************)
(* ProductCatalog: fetchProducts and the change feed                       *)
(***************************************************************************)
\* the store's order of two names: by character, lower case before upper case
CharRank(c) == IF c = "a" THEN 1 ELSE IF c = "A" THEN 2
               ELSE IF c = "b" THEN 3 ELSE 4

RECURSIVE NameLE(_, _)
NameLE(s, t) ==
    IF s = <<>> THEN TRUE
    ELSE IF t = <<>> THEN FALSE
    ELSE IF Head(s) = Head(t) THEN NameLE(Tail(s), Tail(t))
    ELSE CharRank(Head(s)) < CharRank(Head(t))

\* select('*').order('name', ascending): every row once, names ascending; the
\* order of rows with equal names is the store's choice
CatalogSnapshots(table) ==
    {data \in [1..Cardinality(table) -> table] :
        /\ \A i, j \in 1..Cardinality(table) : i # j => data[i] # data[j]
        /\ \A i, j \in 1..Cardinality(table) :
              i < j => NameLE(data[i].name, data[j].name)}

\* a call of fetchProducts(): the select is sent, the await is pending
fetchProducts == catFetches (+) SetToBag({PendingFetch})

\* the remote store answers the select
ServeCatFetch(f) ==
    /\ f \in BagToSet(catFetches) /\ f.st = "sent"
    /\ \E data \in CatalogSnapshots(catalog) :
          catFetches' = (catFetches (-) SetToBag({f}))
                           (+) SetToBag({[st |-> "data", data |-> data]})
    /\ UNCHANGED <<catalog, catNotifs, products, catLoading, searchTerm,
                   selectedCategory, deletingProducts, catReqs, prompts>>
    /\ UNCHANGED <<shopVars, ulVars, authVars, shellVars, formVars>>

\* the remote store answers the select with neither error nor rows
ServeCatFetchNull(f) ==
    /\ f \in BagToSet(catFetches) /\ f.st = "sent"
    /\ catFetches' = (catFetches (-) SetToBag({f}))
                        (+) SetToBag({[st |-> "null", data |-> <<>>]})
    /\ UNCHANGED <<catalog, catNotifs, products, catLoading, searchTerm,
                   selectedCategory, deletingProducts, catReqs, prompts>>
    /\ UNCHANGED <<shopVars, ulVars, authVars, shellVars, formVars>>

\* the rest of fetchProducts after the await: data replaces the products
\* (data || []: no products for null); a
\* failed select (st still "sent") only logs; finally clears loading
fetchProductsResume(f) ==
    /\ f \in BagToSet(catFetches)
    /\ products' = IF f.st = "data" THEN f.data
                 ELSE IF f.st = "null" THEN <<>>
                 ELSE products
    /\ catLoading' = FALSE
    /\ catFetches' = catFetches (-) SetToBag({f})
    /\ UNCHANGED <<catalog, catNotifs, searchTerm, selectedCategory,
                   deletingProducts, catReqs, prompts>>
    /\ UNCHANGED <<shopVars, ulVars, authVars, shellVars, formVars>>

\* the postgres_changes handler of the catalog: any event re-fetches
CatalogOnChange ==
    /\ catNotifs > 0
    /\ catNotifs' = catNotifs - 1
    /\ catFetches' = fetchProducts
    /\ UNCHANGED <<catalog, products, catLoading, searchTerm, selectedCategory,
                   deletingProducts, catReqs, prompts>>
    /\ UNCHANGED <<shopVars, ulVars, authVars, shellVars, formVars>>

(***************************************************************************)
(* ProductCatalog: handleDelete                                            *)
(***************************************************************************)
\* a handleDelete that does not look at the answer to the prompt
handleDeleteNoConfirm(id, accepted) ==
    /\ deletingProducts' = Append(deletingProducts, id)
    /\ catReqs' = catReqs \cup {[id |-> id, st |-> "sent"]}

\* handleDelete(id) up to the await: confirm() returns the user's answer; a
\* declined prompt returns, an accepted one marks the id and sends the delete
handleDelete(id, accepted) ==
    IF accepted
    THEN /\ deletingProducts' = Append(deletingProducts, id)
         /\ catReqs' = catReqs \cup {[id |-> id, st |-> "sent"]}
    ELSE UNCHANGED <<deletingProducts, catReqs>>

\* click on the delete button of the i-th card (rendered for own products,
\* disabled while the product is being deleted) and the answer to the prompt
DeleteProductClick(i, accepted) ==
    /\ Len(prompts) < MaxPrompts
    /\ i \in 1..Len(filteredProducts)
    /\ filteredProducts[i].user_id = Me
    /\ \A k \in 1..Len(deletingProducts) :
          deletingProducts[k] # filteredProducts[i].id
    /\ prompts' = Append(prompts, accepted)
    /\ handleDelete(filteredProducts[i].id, accepted)
    /\ UNCHANGED <<catalog, catNotifs, products, catLoading, searchTerm,
                   selectedCategory, catFetches>>
    /\ UNCHANGED <<shopVars, ulVars, authVars, shellVars, formVars>>

\* the remote store runs delete().eq('id', id) and publishes the change
ServeCatDelete(r) ==
    /\ r \in catReqs /\ r.st = "sent"
    /\ catReqs' = (catReqs \ {r}) \cup {[r EXCEPT !.st = "ok"]}
    /\ catalog' = {row \in catalog : row.id # r.id}
    /\ catNotifs' = IF \E row \in catalog : row.id = r.id
                    THEN catNotifs + 1 ELSE catNotifs
    /\ UNCHANGED <<products, catLoading, searchTerm, selectedCategory,
                   deletingProducts, catFetches, prompts>>
    /\ UNCHANGED <<shopVars, ulVars, authVars, shellVars, formVars>>

\* the rest of handleDelete after the await: a rejected delete (st still
\* "sent") alerts; finally the id is unmarked
handleDeleteResume(r) ==
    /\ r \in catReqs
    /\ deletingProducts' = SelectSeq(deletingProducts, LAMBDA productId : productId # r.id)
    /\ catReqs' = catReqs \ {r}
    /\ UNCHANGED <<catalog, catNotifs, products, catLoading, searchTerm,
                   selectedCategory, catFetches, prompts>>
    /\ UNCHANGED <<shopVars, ulVars, authVars, shellVars, formVars>>

(***************************************************************************)
(* ProductCatalog: the product form                                        *)
(***************************************************************************)
EmptyForm == [name |-> <<>>, category |-> <<>>, description |-> <<>>]

\* value || '' of a nullable text
OrEmpty(value) == IF value = Null THEN <<>> ELSE value

\* value.trim() || null
TrimOrNull(value) == IF Trim(value) = <<>> THEN Null ELSE Trim(value)

\* the header button: setShowForm(!showForm)
toggleShowForm ==
    /\ showForm' = ~showForm
    /\ UNCHANGED <<editingProduct, formData, saving, saveReqs>>
    /\ UNCHANGED <<catalog, catNotifs, products, catLoading, searchTerm,
                   selectedCategory, deletingProducts, catFetches, catReqs, prompts>>
    /\ UNCHANGED <<shopVars, ulVars, authVars, shellVars>>

\* the edit button of the i-th card (rendered for own products)
handleEdit(i) ==
    /\ i \in 1..Len(filteredProducts)
    /\ filteredProducts[i].user_id = Me
    /\ editingProduct' = <<filteredProducts[i]>>
    /\ formData' = [name |-> filteredProducts[i].name,
                    category |-> OrEmpty(filteredProducts[i].category),
                    description |-> OrEmpty(filteredProducts[i].description)]
    /\ showForm' = TRUE
    /\ UNCHANGED <<saving, saveReqs>>
    /\ UNCHANGED <<catalog, catNotifs, products, catLoading, searchTerm,
                   selectedCategory, deletingProducts, catFetches, catReqs, prompts>>
    /\ UNCHANGED <<shopVars, ulVars, authVars, shellVars>>

\* the cancel button of the form
cancelEdit ==
    /\ showForm
    /\ formData' = EmptyForm
    /\ editingProduct' = <<>>
    /\ showForm' = FALSE
    /\ UNCHANGED <<saving, saveReqs>>
    /\ UNCHANGED <<catalog, catNotifs, products, catLoading, searchTerm,
                   selectedCategory, deletingProducts, catFetches, catReqs, prompts>>
    /\ UNCHANGED <<shopVars, ulVars, authVars, shellVars>>

\* typing in the name field of the form
setFormName(value) ==
    /\ showForm
    /\ formData' = [formData EXCEPT !.name = value]
    /\ UNCHANGED <<showForm, editingProduct, saving, saveReqs>>
    /\ UNCHANGED <<catalog, catNotifs, products, catLoading, searchTerm,
                   selectedCategory, deletingProducts, catFetches, catReqs, prompts>>
    /\ UNCHANGED <<shopVars, ulVars, authVars, shellVars>>

\* handleSubmit of the form up to the await (the name is required, the button
\* disabled while saving): an update of the edited product, or an insert
submitProduct ==
    /\ showForm /\ ~saving
    /\ formData.name # <<>>
    /\ catNotifs + BagCardinality(catFetches) + Cardinality(saveReqs) < MaxFetch
    /\ editingProduct = <<>> =>
          /\ \A row \in catalog : row.id <= MaxProducts
          /\ \A r \in saveReqs : r.op # "insert"
    /\ IF Trim(formData.name) = <<>>
       THEN UNCHANGED <<saving, saveReqs>>
       ELSE /\ saving' = TRUE
            /\ saveReqs' = saveReqs \cup
                  {[op |-> IF editingProduct # <<>> THEN "update" ELSE "insert",
                    id |-> IF editingProduct # <<>> THEN editingProduct[1].id ELSE 0,
                    st |-> "sent",
                    data |-> [name |-> Trim(formData.name),
                              category |-> TrimOrNull(formData.category),
                              description |-> TrimOrNull(formData.description),
                              user_id |-> Me]]}
    /\ UNCHANGED <<showForm, editingProduct, formData>>
    /\ UNCHANGED <<catalog, catNotifs, products, catLoading, searchTerm,
                   selectedCategory, deletingProducts, catFetches, catReqs, prompts>>
    /\ UNCHANGED <<shopVars, ulVars, authVars, shellVars>>

\* the remote store runs the insert (next serial id) or the update and
\* publishes the change
ServeSave(r) ==
    /\ r \in saveReqs /\ r.st = "sent"
    /\ saveReqs' = (saveReqs \ {r}) \cup {[r EXCEPT !.st = "ok"]}
    /\ IF r.op = "insert"
       THEN /\ catalog' = catalog \cup
                  {[id |-> MaxProducts + 1, name |-> r.data.name,
                    description |-> r.data.description,
                    category |-> r.data.category, user_id |-> r.data.user_id]}
            /\ catNotifs' = catNotifs + 1
       ELSE /\ catalog' = {IF row.id = r.id
                           THEN [id |-> row.id, name |-> r.data.name,
                                 description |-> r.data.description,
                                 category |-> r.data.category,
                                 user_id |-> r.data.user_id]
                           ELSE row : row \in catalog}
            /\ catNotifs' = IF \E row \in catalog : row.id = r.id
                            THEN catNotifs + 1 ELSE catNotifs
    /\ UNCHANGED <<showForm, editingProduct, formData, saving>>
    /\ UNCHANGED <<products, catLoading, searchTerm, selectedCategory,
                   deletingProducts, catFetches, catReqs, prompts>>
    /\ UNCHANGED <<shopVars, ulVars, authVars, shellVars>>

\* the rest of handleSubmit after the await: an accepted save resets and
\* hides the form, a rejected one (st still "sent") alerts; finally saving is
\* cleared
submitProductResume(r) ==
    /\ r \in saveReqs
    /\ saveReqs' = saveReqs \ {r}
    /\ IF r.st = "ok"
       THEN /\ formData' = EmptyForm
            /\ editingProduct' = <<>>
            /\ showForm' = FALSE
       ELSE UNCHANGED <<formData, editingProduct, showForm>>
    /\ saving' = FALSE
    /\ UNCHANGED <<catalog, catNotifs, products, catLoading, searchTerm,
                   selectedCategory, deletingProducts, catFetches, catReqs, prompts>>
    /\ UNCHANGED <<shopVars, ulVars, authVars, shellVars>>

\* the form as the catalog mounts with it: hidden and empty
FormStart ==
    /\ showForm = FALSE
    /\ editingProduct = <<>>
    /\ formData = EmptyForm
    /\ saving = FALSE
    /\ saveReqs = {}

\* ProductCatalog right after mount: fetchProducts() called, nothing typed
CatalogStart ==
    /\ FormStart
    /\ products = <<>>
    /\ catLoading = TRUE
    /\ searchTerm = <<>>
    /\ selectedCategory = <<>>
    /\ deletingProducts = <<>>
    /\ catFetches = SetToBag({PendingFetch})
    /\ catReqs = {}
    /\ catNotifs = 0
    /\ prompts = <<>>

\* the catalog while another view is looked at: not rendered
CatalogIdle ==
    /\ FormStart
    /\ catalog = {}
    /\ products = <<>>
    /\ catLoading = TRUE
    /\ searchTerm = <<>>
    /\ selectedCategory = <<>>
    /\ deletingProducts = <<>>
    /\ catFetches = EmptyBag
    /\ catReqs = {}
    /\ catNotifs = 0
    /\ prompts = <<>>

(***************************************************************************)
(* Auth: the sign-in / sign-up form                                        *)
(***************************************************************************)
\* what the fields may hold, and the messages of the provider's errors
Credentials == {"", "c"}
ProviderMessages == {"Invalid login credentials", "User already registered"}
CheckEmailMessage == "Por favor, revisa tu email para confirmar tu cuenta"
\* (written here without the accent of the source text)
UnexpectedMessage == "Ocurrio un error inesperado"

setEmail(value) ==
    /\ authMounted
    /\ email' = value
    /\ UNCHANGED <<authMounted, password, authLoading, message, isLogin,
                   authReqs, signedIn>>
    /\ UNCHANGED <<shopVars, ulVars, catVars, shellVars>>

setPassword(value) ==
    /\ authMounted
    /\ password' = value
    /\ UNCHANGED <<authMounted, email, authLoading, message, isLogin,
                   authReqs, signedIn>>
    /\ UNCHANGED <<shopVars, ulVars, catVars, shellVars>>

\* the mode button under the form
toggleIsLogin ==
    /\ authMounted
    /\ isLogin' = ~isLogin
    /\ UNCHANGED <<authMounted, email, password, authLoading, message,
                   authReqs, signedIn>>
    /\ UNCHANGED <<shopVars, ulVars, catVars, shellVars>>

\* handleSubmit up to the await (both fields are required, the button is
\* disabled while loading): loading set, message cleared, the call of the
\* current mode sent
handleSubmit ==
    /\ authMounted /\ ~authLoading
    /\ email # "" /\ password # ""
    /\ authLoading' = TRUE
    /\ message' = ""
    /\ authReqs' = authReqs \cup
          {[isLogin |-> isLogin, st |-> "sent", message |-> ""]}
    /\ UNCHANGED <<authMounted, email, password, isLogin, signedIn>>
    /\ UNCHANGED <<shopVars, ulVars, catVars, shellVars>>

\* the provider answers: the call is accepted (a sign-in creates a session, a
\* sign-up may), rejected with an error carrying a message, or something that
\* is no Error is thrown
ServeAuth(r, st, msg, session_) ==
    /\ r \in authReqs /\ r.st = "sent"
    /\ st \in {"ok", "error", "thrown"}
    /\ msg \in (IF st = "error" THEN ProviderMessages ELSE {""})
    /\ session_ \in (IF st # "ok" THEN {FALSE}
                     ELSE IF r.isLogin THEN {TRUE} ELSE BOOLEAN)
    /\ authReqs' = (authReqs \ {r}) \cup {[r EXCEPT !.st = st, !.message = msg]}
    /\ signedIn' = (signedIn \/ session_)
    /\ UNCHANGED <<authMounted, email, password, authLoading, message, isLogin>>
    /\ UNCHANGED <<shopVars, ulVars, catVars, shellVars>>

\* a handler showing the fixed text for every failure
ShownMessageGeneric(r) ==
    IF r.st = "ok" THEN (IF r.isLogin THEN message ELSE CheckEmailMessage)
    ELSE UnexpectedMessage

\* the message handleSubmit leaves: the confirmation hint after a sign-up,
\* error.message of an Error, the fixed text for anything else thrown
ShownMessage(r) ==
    IF r.st = "ok" THEN (IF r.isLogin THEN message ELSE CheckEmailMessage)
    ELSE IF r.st = "error" THEN r.message
    ELSE UnexpectedMessage

\* the rest of handleSubmit after the await; the setters do nothing once the
\* form is unmounted
handleSubmitResume(r) ==
    /\ r \in authReqs /\ r.st # "sent"
    /\ authReqs' = authReqs \ {r}
    /\ message' = IF authMounted THEN ShownMessage(r) ELSE message
    /\ authLoading' = (authLoading /\ ~authMounted)
    /\ UNCHANGED <<authMounted, email, password, isLogin, signedIn>>
    /\ UNCHANGED <<shopVars, ulVars, catVars, shellVars>>

\* the shell's auth listener sets the user: the form is no longer rendered
authGate ==
    /\ authMounted /\ signedIn
    /\ authMounted' = FALSE
    /\ UNCHANGED <<email, password, authLoading, message, isLogin, authReqs,
                   signedIn>>
    /\ UNCHANGED <<shopVars, ulVars, catVars, shellVars>>

\* the form as the shell renders it without a user
AuthStart ==
    /\ authMounted = TRUE
    /\ email = ""
    /\ password = ""
    /\ authLoading = FALSE
    /\ message = ""
    /\ isLogin = TRUE
    /\ authReqs = {}
    /\ signedIn = FALSE

\* the form while a user is signed in: not rendered
AuthIdle ==
    /\ authMounted = FALSE
    /\ email = ""
    /\ password = ""
    /\ authLoading = FALSE
    /\ message = ""
    /\ isLogin = TRUE
    /\ authReqs = {}
    /\ signedIn = TRUE
(***************************************************************************)
(* ShoppingApp: the shell holding the user and gating the views            *)
(***************************************************************************)
\* the provider reads its current session for the pending getSession()
getSessionServe ==
    /\ getSessionReq.st = "sent"
    /\ getSessionReq' = [st |-> "answered", session |-> providerSession]
    /\ UNCHANGED <<providerSession, authEvents, appUser, appSession, appLoading,
                   activeView>>
    /\ UNCHANGED <<shopVars, ulVars, catVars, authVars>>

\* the rest of getSession after the await
getSessionResume ==
    /\ getSessionReq.st = "answered"
    /\ getSessionReq' = [getSessionReq EXCEPT !.st = "done"]
    /\ appSession' = getSessionReq.session
    /\ appUser' = getSessionReq.session
    /\ appLoading' = FALSE
    /\ UNCHANGED <<providerSession, authEvents, activeView>>
    /\ UNCHANGED <<shopVars, ulVars, catVars, authVars>>

\* the provider's session changes (a sign-in, or a sign-out from anywhere) and
\* the event is queued for the listener
ProviderSignIn(u) ==
    /\ providerSession = "none"
    /\ Len(authEvents) < MaxEvents
    /\ providerSession' = u
    /\ authEvents' = Append(authEvents, [event |-> "SIGNED_IN", session |-> u])
    /\ UNCHANGED <<getSessionReq, appUser, appSession, appLoading, activeView>>
    /\ UNCHANGED <<shopVars, ulVars, catVars, authVars>>

ProviderSignOut ==
    /\ providerSession # "none"
    /\ Len(authEvents) < MaxEvents
    /\ providerSession' = "none"
    /\ authEvents' = Append(authEvents, [event |-> "SIGNED_OUT", session |-> "none"])
    /\ UNCHANGED <<getSessionReq, appUser, appSession, appLoading, activeView>>
    /\ UNCHANGED <<shopVars, ulVars, catVars, authVars>>

\* the render gate: past the loading screen, the navigation and the list,
\* presence and catalog views are rendered with a user, the Auth form without
ViewsRendered == ~appLoading /\ appUser # "none"

\* the sign-out button of the header: supabase.auth.signOut()
SignOutClick ==
    /\ ViewsRendered
    /\ ProviderSignOut

\* the listener given to onAuthStateChange, on event e: session and user are
\* taken from the event, and set to null once more on SIGNED_OUT
onAuthStateChange(e) ==
    /\ appSession' = IF e.event = "SIGNED_OUT" THEN "none" ELSE e.session
    /\ appUser' = IF e.event = "SIGNED_OUT" THEN "none" ELSE e.session
    /\ appLoading' = FALSE

\* the oldest queued event reaches the listener
AuthEventDelivered ==
    /\ authEvents # <<>>
    /\ onAuthStateChange(Head(authEvents))
    /\ authEvents' = Tail(authEvents)
    /\ UNCHANGED <<providerSession, getSessionReq, activeView>>
    /\ UNCHANGED <<shopVars, ulVars, catVars, authVars>>

\* the two buttons of the view navigation
setActiveView(view) ==
    /\ ViewsRendered
    /\ activeView' = view
    /\ UNCHANGED <<providerSession, getSessionReq, authEvents, appUser,
                   appSession, appLoading>>
    /\ UNCHANGED <<shopVars, ulVars, catVars, authVars>>

\* the shell right after mount with the provider's session s: getSession()
\* called, the listener registered, the INITIAL_SESSION event queued
ShellStart(s) ==
    /\ providerSession = s
    /\ getSessionReq = [st |-> "sent", session |-> "none"]
    /\ authEvents = <<[event |-> "INITIAL_SESSION", session |-> s]>>
    /\ appUser = "none"
    /\ appSession = "none"
    /\ appLoading = TRUE
    /\ activeView = "shopping"

\* the shell at rest with the session s, showing the view
ShellShowing(s, view) ==
    /\ providerSession = s
    /\ getSessionReq = [st |-> "done", session |-> s]
    /\ authEvents = <<>>
    /\ appUser = s
    /\ appSession = s
    /\ appLoading = FALSE
    /\ activeView = view

\* the other views as they stand while the shopping list is looked at
InitViews ==
    /\ ulVersion = 2
    /\ session = Me
    /\ UserListStart
    /\ CatalogIdle
    /\ AuthIdle
    /\ ShellShowing(Me, "shopping")

(***************************************************************************)
(* The shopping list, mounted, with a healthy change feed                  *)
(***************************************************************************)
\* tables the view can be mounted on
InitTables ==
    {{}} \cup {{NewRow(1, 1000, <<"m">>, <<>>, u)} : u \in Users}

InitList ==
    /\ remote \in InitTables
    /\ nextId = Cardinality(remote) + 1
    /\ clock = IF remote = {} THEN 0 ELSE 1000
    /\ notifs = <<>>
    /\ items = <<>>
    /\ loading = TRUE
    /\ addingItem = FALSE
    /\ updatingItems = <<>>
    /\ deletingItems = <<>>
    /\ fetches = SetToBag({PendingFetch})
    /\ reqs = {}
    /\ timers = {}
    /\ budget = MaxOps
    /\ InitEffect
    /\ InitViews

NextList ==
    \/ \E f \in InFlight : ServeFetch(f)
    \/ \E f \in InFlight : fetchItemsResume(f)
    \/ forceRefresh
    \/ \E text \in FormTexts, qty \in FormQuantities : addItem(text, qty)
    \/ \E r \in reqs : ServeInsert(r)
    \/ \E r \in reqs : addItemResume(r)
    \/ \E i \in 1..Len(items) : ToggleClick(i)
    \/ \E r \in reqs : ServeUpdate(r)
    \/ \E r \in reqs : updateItemResume(r)
    \/ \E i \in 1..Len(items) : DeleteClick(i)
    \/ \E r \in reqs : ServeDelete(r)
    \/ \E r \in reqs : deleteItemResume(r)
    \/ \E t \in timers : TimerFires(t)
    \/ OnChange
    \/ OtherInsert
    \/ \E id \in Ids : OtherToggle(id)
    \/ \E id \in Ids : OtherDelete(id)

SpecList == InitList /\ [][NextList]_vars

(***************************************************************************)
(* The same view when the local user is the only one changing the table    *)
(***************************************************************************)
NextLocal ==
    \/ \E f \in InFlight : ServeFetch(f)
    \/ \E f \in InFlight : fetchItemsResume(f)
    \/ forceRefresh
    \/ \E text \in FormTexts, qty \in FormQuantities : addItem(text, qty)
    \/ \E r \in reqs : ServeInsert(r)
    \/ \E r \in reqs : addItemResume(r)
    \/ \E i \in 1..Len(items) : ToggleClick(i)
    \/ \E r \in reqs : ServeUpdate(r)
    \/ \E r \in reqs : updateItemResume(r)
    \/ \E i \in 1..Len(items) : DeleteClick(i)
    \/ \E r \in reqs : ServeDelete(r)
    \/ \E r \in reqs : deleteItemResume(r)
    \/ \E t \in timers : TimerFires(t)
    \/ OnChange

SpecLocal == InitList /\ [][NextLocal]_vars

(***************************************************************************)
(* One loaded item, toggled by the local user; the store accepts every     *)
(* update and the feed echoes it                                           *)
(***************************************************************************)
InitToggle ==
    /\ \E u \in Users : remote = {NewRow(1, 1000, <<"m">>, <<>>, u)}
    /\ nextId = 2
    /\ clock = 1000
    /\ notifs = <<>>
    /\ items = Snapshot(remote)
    /\ loading = FALSE
    /\ addingItem = FALSE
    /\ updatingItems = <<>>
    /\ deletingItems = <<>>
    /\ fetches = EmptyBag
    /\ reqs = {}
    /\ timers = {}
    /\ budget = MaxToggles
    /\ InitEffect
    /\ InitViews

NextToggle ==
    \/ \E i \in 1..Len(items) : ToggleClick(i)
    \/ \E r \in reqs : ServeUpdate(r)
    \/ \E r \in reqs : r.st = "ok" /\ updateItemResume(r)
    \/ \E t \in timers : TimerFires(t)
    \/ OnChange

SpecToggle == InitToggle /\ [][NextToggle]_vars

(***************************************************************************)
(* The effect of the shopping list under subscription failures, poll ticks *)
(* and unmount, with another user changing the table                       *)
(***************************************************************************)
InitShop ==
    /\ remote = {NewRow(1, 1000, <<"m">>, <<>>, Other)}
    /\ nextId = 2
    /\ clock = 1000
    /\ notifs = <<>>
    /\ items = <<>>
    /\ loading = TRUE
    /\ addingItem = FALSE
    /\ updatingItems = <<>>
    /\ deletingItems = <<>>
    /\ fetches = SetToBag({PendingFetch})
    /\ reqs = {}
    /\ timers = {}
    /\ budget = MaxOps
    /\ InitEffect

InitRT == InitShop /\ InitViews

NextRT ==
    \/ \E ch \in 1..Len(channels) :
          \E status \in {"SUBSCRIBED", "CHANNEL_ERROR", "TIMED_OUT"} :
             SubscribeStatus(ch, status)
    \/ \E t \in BagToSet(reconnects) : setupRealtime(t)
    \/ pollTick
    \/ unmount
    \/ \E f \in InFlight : ServeFetch(f)
    \/ \E f \in InFlight : fetchItemsResume(f)

SpecRT == InitRT /\ [][NextRT]_vars

(***************************************************************************)
(* The shopping list with a feed that is subscribed but may silently drop  *)
(* notifications: no CHANNEL_ERROR or TIMED_OUT is ever reported           *)
(***************************************************************************)
NextFeed ==
    \/ \E ch \in 1..Len(channels) : SubscribeStatus(ch, "SUBSCRIBED")
    \/ \E ch \in 1..Len(channels) : OnChangeVia(ch)
    \/ FeedAdvance
    \/ \E f \in InFlight : ServeFetch(f)
    \/ \E f \in InFlight : fetchItemsResume(f)
    \/ forceRefresh
    \/ OtherInsert
    \/ \E id \in Ids : OtherToggle(id)
    \/ \E id \in Ids : OtherDelete(id)

SpecFeed == InitRT /\ [][NextFeed]_vars

(***************************************************************************)
(* The effect while the subscription stays down: every channel fails       *)
(***************************************************************************)
NextDown ==
    \/ \E ch \in 1..Len(channels), status \in {"CHANNEL_ERROR", "TIMED_OUT"} :
          SubscribeStatus(ch, status)
    \/ \E t \in BagToSet(reconnects) : setupRealtime(t)
    \/ pollTick
    \/ \E f \in InFlight : ServeFetch(f)
    \/ \E f \in InFlight : fetchItemsResume(f)

SpecDown == InitRT /\ [][NextDown]_vars

(***************************************************************************)
(* The list of online users                                                *)
(***************************************************************************)
InitUsers ==
    /\ InitShop /\ InitUserList /\ CatalogIdle /\ AuthIdle
    /\ ShellShowing(Me, "shopping")

NextUsers ==
    \/ getCurrentUserResume
    \/ PresenceSubscribed
    \/ \E newState \in PresenceStates : PresenceSync(newState)
    \/ ulUnmount

SpecUsers == InitUsers /\ [][NextUsers]_vars

(***************************************************************************)
(* The product catalog: what is typed and selected over what was loaded    *)
(***************************************************************************)
ProductNames == {<<"a">>, <<"A", "b">>, <<"b">>}
Descriptions == {Null, <<"B", "a">>}
Categories == {Null, <<"x">>, <<"X">>}
SearchTerms == {<<>>, <<"a">>, <<"B">>, <<"a", "b">>}

\* a row of product_catalog; odd ids are the local user's
ProductRow(id, name, description, category) ==
    [id |-> id, name |-> name, description |-> description,
     category |-> category, user_id |-> IF id % 2 = 1 THEN Me ELSE Other]

\* the tables with one row per id
CatalogTables ==
    {{ProductRow(id, row[id][1], row[id][2], row[id][3]) : id \in 1..MaxProducts} :
        row \in [1..MaxProducts -> ProductNames \X Descriptions \X Categories]}

\* the views that are not looked at while the catalog is
InitBesideCatalog ==
    /\ InitShop
    /\ ulVersion = 2 /\ session = Me /\ UserListStart
    /\ AuthIdle
    /\ ShellShowing(Me, "catalog")

InitFilter ==
    /\ InitBesideCatalog
    /\ catalog \in CatalogTables
    /\ CatalogStart

NextFilter ==
    \/ \E f \in BagToSet(catFetches) : ServeCatFetch(f)
    \/ \E f \in BagToSet(catFetches) : fetchProductsResume(f)
    \/ \E term \in SearchTerms : setSearchTerm(term)
    \/ \E category \in Categories \ {Null} : setSelectedCategory(category)
    \/ setSelectedCategory(<<>>)

SpecFilter == InitFilter /\ [][NextFilter]_vars

(***************************************************************************)
(* The product catalog: deleting products                                  *)
(***************************************************************************)
\* tables whose rows differ in their names only
NamedTables ==
    {{ProductRow(id, name[id], Null, Null) : id \in 1..MaxProducts} :
        name \in [1..MaxProducts -> ProductNames]}

InitCatalog ==
    /\ InitBesideCatalog
    /\ catalog \in NamedTables
    /\ CatalogStart

NextCatalog ==
    \/ \E f \in BagToSet(catFetches) : ServeCatFetch(f)
    \/ \E f \in BagToSet(catFetches) : fetchProductsResume(f)
    \/ CatalogOnChange
    \/ \E i \in 1..MaxProducts, accepted \in BOOLEAN : DeleteProductClick(i, accepted)
    \/ \E r \in catReqs : ServeCatDelete(r)
    \/ \E r \in catReqs : handleDeleteResume(r)

SpecCatalog == InitCatalog /\ [][NextCatalog]_vars

(***************************************************************************)
(* The product catalog: the form, opened, filled, submitted and hidden     *)
(***************************************************************************)
FormNames == {<<>>, <<" ">>, <<"b">>}

InitForm ==
    /\ InitBesideCatalog
    /\ catalog = {ProductRow(id, <<"a">>, Null, Null) : id \in 1..MaxProducts}
    /\ CatalogStart

NextForm ==
    \/ \E f \in BagToSet(catFetches) : ServeCatFetch(f)
    \/ \E f \in BagToSet(catFetches) : fetchProductsResume(f)
    \/ CatalogOnChange
    \/ toggleShowForm
    \/ \E i \in 1..MaxProducts : handleEdit(i)
    \/ cancelEdit
    \/ \E value \in FormNames : setFormName(value)
    \/ submitProduct
    \/ \E r \in saveReqs : ServeSave(r)
    \/ \E r \in saveReqs : submitProductResume(r)

SpecForm == InitForm /\ [][NextForm]_vars

(***************************************************************************)
(* The fetches of the list and of the catalog: answered with rows,         *)
(* answered with null, or failing                                          *)
(***************************************************************************)
InitFetch ==
    /\ InitShop
    /\ ulVersion = 2 /\ session = Me /\ UserListStart
    /\ AuthIdle
    /\ ShellShowing(Me, "shopping")
    /\ catalog \in NamedTables
    /\ CatalogStart

NextFetch ==
    \/ \E f \in InFlight : ServeFetch(f)
    \/ \E f \in InFlight : ServeFetchNull(f)
    \/ \E f \in InFlight : fetchItemsResume(f)
    \/ forceRefresh
    \/ \E f \in BagToSet(catFetches) : ServeCatFetch(f)
    \/ \E f \in BagToSet(catFetches) : ServeCatFetchNull(f)
    \/ \E f \in BagToSet(catFetches) : fetchProductsResume(f)
    \/ \E i \in 1..MaxProducts : DeleteProductClick(i, TRUE)
    \/ \E r \in catReqs : ServeCatDelete(r)
    \/ \E r \in catReqs : handleDeleteResume(r)
    \/ CatalogOnChange

SpecFetch == InitFetch /\ [][NextFetch]_vars

(***************************************************************************)
(* The sign-in / sign-up form, shown while the shell has no user           *)
(***************************************************************************)
InitAuth ==
    /\ InitShop
    /\ ulVersion = 2 /\ session = "none" /\ UserListStart
    /\ CatalogIdle
    /\ ShellShowing("none", "shopping")
    /\ AuthStart

NextAuth ==
    \/ \E value \in Credentials : setEmail(value)
    \/ \E value \in Credentials : setPassword(value)
    \/ toggleIsLogin
    \/ handleSubmit
    \/ \E r \in authReqs, st \in {"ok", "error", "thrown"},
          msg \in ProviderMessages \cup {""}, session_ \in BOOLEAN :
          ServeAuth(r, st, msg, session_)
    \/ \E r \in authReqs : handleSubmitResume(r)
    \/ authGate

SpecAuth == InitAuth /\ [][NextAuth]_vars

(***************************************************************************)
(* The shell from its mount on, the provider's session changing under it   *)
(***************************************************************************)
InitShell ==
    /\ InitShop
    /\ ulVersion = 2 /\ session = Me /\ UserListStart
    /\ CatalogIdle
    /\ AuthIdle
    /\ \E s \in {"none"} \cup Users : ShellStart(s)

NextShell ==
    \/ getSessionServe
    \/ getSessionResume
    \/ \E u \in Users : ProviderSignIn(u)
    \/ ProviderSignOut
    \/ SignOutClick
    \/ AuthEventDelivered
    \/ \E view \in {"shopping", "catalog"} : setActiveView(view)

SpecShell == InitShell /\ [][NextShell]_vars

(***************************************************************************)
(* The shopping list when every select is answered: fetchItems resumes     *)
(* with data only, while inserts, updates and deletes may still be         *)
(* rejected                                                                *)
(***************************************************************************)
NextAnswered ==
    \/ \E f \in InFlight : ServeFetch(f)
    \/ \E f \in InFlight : f.st = "data" /\ fetchItemsResume(f)
    \/ forceRefresh
    \/ \E text \in FormTexts, qty \in FormQuantities : addItem(text, qty)
    \/ \E r \in reqs : ServeInsert(r)
    \/ \E r \in reqs : addItemResume(r)
    \/ \E i \in 1..Len(items) : ToggleClick(i)
    \/ \E r \in reqs : ServeUpdate(r)
    \/ \E r \in reqs : updateItemResume(r)
    \/ \E i \in 1..Len(items) : DeleteClick(i)
    \/ \E r \in reqs : ServeDelete(r)
    \/ \E r \in reqs : deleteItemResume(r)
    \/ \E t \in timers : TimerFires(t)
    \/ OnChange
    \/ OtherInsert
    \/ \E id \in Ids : OtherToggle(id)
    \/ \E id \in Ids : OtherDelete(id)

SpecAnswered == InitList /\ [][NextAnswered]_vars

\* every select is answered or fails, and the await of fetchItems resumes
\* two loaded items, one of each user, toggled and deleted by the local user
InitMutate ==
    /\ remote = {NewRow(1, 1000, <<"m">>, <<>>, Me),
                 NewRow(2, 1400, <<"b">>, <<>>, Other)}
    /\ nextId = 3
    /\ clock = 1400
    /\ notifs = <<>>
    /\ items = Snapshot(remote)
    /\ loading = FALSE
    /\ addingItem = FALSE
    /\ updatingItems = <<>>
    /\ deletingItems = <<>>
    /\ fetches = EmptyBag
    /\ reqs = {}
    /\ timers = {}
    /\ budget = MaxOps
    /\ InitEffect
    /\ InitViews

NextMutate ==
    \/ \E i \in 1..Len(items) : ToggleClick(i)
    \/ \E r \in reqs : ServeUpdate(r)
    \/ \E r \in reqs : updateItemResume(r)
    \/ \E i \in 1..Len(items) : DeleteClick(i)
    \/ \E r \in reqs : ServeDelete(r)
    \/ \E r \in reqs : deleteItemResume(r)
    \/ \E t \in timers : TimerFires(t)
    \/ \E f \in InFlight : ServeFetch(f)
    \/ \E f \in InFlight : fetchItemsResume(f)
    \/ OnChange

\* the mutations while every update and delete request settles and the
\* component stays mounted, so that each timer of a finally block runs
FairMutate ==
    /\ InitMutate /\ [][NextMutate]_vars
    /\ \A id \in Ids :
          /\ WF_vars(\E r \in reqs : r.id = id /\ updateItemResume(r))
          /\ WF_vars(\E r \in reqs : r.id = id /\ deleteItemResume(r))
          /\ WF_vars(\E t \in timers : t.id = id /\ t.kind # "fetch" /\ TimerFires(t))

FairFeed ==
    /\ SpecFeed
    /\ WF_vars(\E f \in InFlight : ServeFetch(f))
    /\ WF_vars(\E f \in InFlight : fetchItemsResume(f))

(***************************************************************************)
(* Properties                                                              *)
(***************************************************************************)
\* the item with this id stands once in the list, where its creation time puts
\* it: whatever is before it is newer, whatever is after it is older
PlacedByCreation(list, id) ==
    \E i \in 1..Len(list) :
        /\ list[i].id = id
        /\ \A j \in 1..Len(list) :
              /\ j < i => list[j].created_at > list[i].created_at
              /\ j > i => list[j].created_at < list[i].created_at

\* C1: when the remote delete is rejected, the resumed deleteItem leaves the
\* item in the visible collection at its place in the newest-first order,
\* whatever fetch results and notifications arrived while the request was in
\* flight.
C1_FailedDeleteRestores ==
    [][\A r \in reqs :
          (r.op = "delete" /\ r.st # "ok" /\ deleteItemResume(r))
              => PlacedByCreation(items', r.id)]_vars

\* C2: the calls of setupRealtime after the first, counted since the last
\* SUBSCRIBED status, never exceed maxRetries.
C2_ReconnectsBounded == attempts <= maxRetries

\* the select answered in this step, if the step is ServeFetch
Answered == BagToSet(fetches' (-) fetches)

\* a served select holds every row of the table exactly once
AnswerComplete ==
    \A f \in InFlight : ServeFetch(f) =>
        \A g \in Answered : \A row \in remote : Count(g.data, row.id) = 1

\* fetchItems resumed with data shows exactly that data
AnswerShown ==
    \A f \in InFlight : (f.st = "data" /\ fetchItemsResume(f)) => items' = f.data

\* what the handler leaves for payload p: UPDATE puts the new field values on
\* the item with that id, DELETE leaves no item with that id, INSERT leaves the
\* collection to the fetch
Reflected(before, after, p) ==
    /\ p.eventType = "UPDATE" =>
          \A i \in 1..Len(after) :
              after[i].id = p.id => \A k \in DOMAIN p.new : after[i][k] = p.new[k]
    /\ p.eventType = "DELETE" => p.id \notin IdsOf(after)
    /\ p.eventType = "INSERT" => after = before

HandlerReflects ==
    \A ch \in LiveChannels :
        (notifs # <<>> /\ OnChangeVia(ch)) =>
            /\ Reflected(items, items', Head(notifs))
            /\ Head(notifs).eventType = "INSERT" =>
                  BagCardinality(fetches') = BagCardinality(fetches) + 1

C4_SecondApplicationNoOp ==
    [][\A ch \in LiveChannels :
          (notifs # <<>> /\ OnChangeVia(ch)) =>
              ApplyChange(items', Head(notifs)) = items']_vars

\* an UPDATE was handled for an item that is shown with the new value
C4_Witness ==
    /\ seenBy # {} /\ notifs # <<>>
    /\ Head(notifs).eventType = "UPDATE"
    /\ \E i \in 1..Len(items) :
          items[i].id = Head(notifs).id /\ items[i].completed = Head(notifs).new.completed

\* the optimistic change of the request r on a list
LocalPatch(list, r) ==
    IF r.op = "update" THEN OptimisticUpdate(list, r.id, r.updates)
    ELSE OptimisticDelete(list, r.id)

\* position of the newest undelivered notification about id (0: none)
LastAbout(id) ==
    LET ks == {k \in 1..Len(notifs) : notifs[k].id = id}
    IN  IF ks = {} THEN 0 ELSE CHOOSE k \in ks : \A j \in ks : j <= k

\* the store ran the toggle or delete r and its notification is undelivered
HasEcho(r) ==
    /\ r.op \in {"update", "delete"} /\ r.st = "ok"
    /\ LastAbout(r.id) # 0
    /\ notifs[LastAbout(r.id)].eventType = (IF r.op = "update" THEN "UPDATE" ELSE "DELETE")

EchoOf(r) == notifs[LastAbout(r.id)]

\* C5: for a local toggle or delete whose echo is undelivered, optimistic
\* patch then echo and echo then optimistic patch give the same collection,
\* and each of the two applied twice equals itself applied once.
C5_PatchAndEchoCommute ==
    \A r \in reqs : HasEcho(r) =>
        LET p == EchoOf(r)
        IN  /\ ApplyChange(LocalPatch(items, r), p) = LocalPatch(ApplyChange(items, p), r)
            /\ LocalPatch(LocalPatch(items, r), r) = LocalPatch(items, r)
            /\ ApplyChange(ApplyChange(items, p), p) = ApplyChange(items, p)

\* a toggle ran on the store, its echo is undelivered and the item is shown
C5_Witness ==
    \E r \in reqs : HasEcho(r) /\ r.op = "update" /\ r.id \in IdsOf(items)

\* no fetch is scheduled or started in this step
NoFetchScheduled ==
    /\ \A t \in timers' \ timers : t.kind # "fetch"
    /\ fetches' = fetches

\* C6: a rejected toggle schedules a fetch of the list; a rejected delete puts
\* the remembered item back locally and schedules no fetch; a rejected add
\* changes nothing in the collection and schedules no fetch.
C6_FailureHandling ==
    [][\A r \in reqs : r.st # "ok" =>
          /\ updateItemResume(r) =>
                [kind |-> "fetch", id |-> r.id, cause |-> "updateError"] \in timers'
          /\ deleteItemResume(r) =>
                items' = RevertDelete(items, r.deletedItem) /\ NoFetchScheduled
          /\ addItemResume(r) => items' = items /\ NoFetchScheduled]_vars

\* C6 as stated: every rejected add, toggle or delete schedules a fetch.
C6_EveryFailureRefetches ==
    [][\A r \in reqs :
          (r.st # "ok" /\ (addItemResume(r) \/ updateItemResume(r) \/ deleteItemResume(r)))
              => ~NoFetchScheduled]_vars

\* the fetch scheduled by a rejected toggle is pending
C6_Witness ==
    \E t \in timers : t.kind = "fetch" /\ t.cause = "updateError"

\* C7: once the view is unmounted none of its channels is live and no
\* reconnect timeout is pending.
C7_NothingLiveAfterUnmount ==
    ~mounted => (LiveChannels = {} /\ reconnects = EmptyBag)

\* the change of the notification p is not in the shown collection
Unreflected(p) ==
    IF p.eventType = "DELETE"
    THEN ~HasRow(p.id) /\ p.id \in IdsOf(items)
    ELSE /\ HasRow(p.id)
         /\ \A i \in 1..Len(items) : items[i] # Joined(RowOf(p.id))

\* C8: when the feed has silently dropped the notification of another user's
\* change, the change is not shown in the loaded collection and nothing is in
\* flight, a tick of the poll interval calls fetchItems.
C8_PollStillFetches ==
    (/\ mounted /\ notifs = <<>> /\ fetches = EmptyBag /\ items # <<>>
     /\ \E p \in lost : Unreflected(p))
        => ENABLED pollTick

\* C9: a submit with text that is not blank and a blank quantity sends one
\* insert with the trimmed text, quantity "" and the current user as owner; the
\* store adds exactly that one row; the resumed addItem schedules the fetch,
\* the timer calls fetchItems, and a select answered from then on holds the
\* row once and is what the view shows.
C9_AddCreatesOneItem ==
    [][/\ \A text \in FormTexts, qty \in FormQuantities :
             (Trim(qty) = <<>> /\ addItem(text, qty)) =>
                 /\ Cardinality(reqs') = Cardinality(reqs) + 1
                 /\ \A r \in reqs' \ reqs :
                       /\ r.op = "insert"
                       /\ r.row = [item |-> Trim(text), quantity |-> <<>>, user_id |-> Me]
       /\ \A r \in reqs : ServeInsert(r) =>
             /\ Cardinality(remote') = Cardinality(remote) + 1
             /\ \A row \in remote' \ remote :
                   /\ row.id \notin {old.id : old \in remote}
                   /\ row.item = r.row.item /\ row.item # <<>>
                   /\ row.quantity = <<>>
                   /\ row.user_id = Me
             /\ remote \subseteq remote'
       /\ \A r \in reqs : (r.op = "insert" /\ r.st = "ok" /\ addItemResume(r)) =>
             [kind |-> "fetch", id |-> r.id, cause |-> "add"] \in timers'
       /\ \A t \in timers : (t.kind = "fetch" /\ TimerFires(t)) =>
             fetches' = fetches (+) SetToBag({PendingFetch})
       /\ AnswerComplete /\ AnswerShown]_vars

\* after one submit the row added for the current user is in the table once
\* and shown, with quantity ""
C9_Witness ==
    /\ budget = MaxOps - 1 /\ reqs = {} /\ timers = {} /\ fetches = EmptyBag
    /\ Cardinality({row \in remote : row.item = <<"a">>}) = 1
    /\ \E i \in 1..Len(items) :
          /\ items[i].item = <<"a">> /\ items[i].quantity = <<>>
          /\ items[i].user_id = Me
          /\ Count(items, items[i].id) = 1

\* clicks on the completion button so far (one item, only toggles)
TogglesDone == MaxToggles - budget

\* C10: once the item has been toggled twice and both echoes are delivered,
\* the item shows the completion state it had at the start (not completed),
\* whatever the order of the two requests, their timers and their echoes.
C10_TwoTogglesRestore ==
    (TogglesDone = 2 /\ reqs = {} /\ notifs = <<>>)
        => \A i \in 1..Len(items) : ~items[i].completed

\* two toggles ran, both echoes are delivered, the item is shown not completed
C10_Witness ==
    /\ TogglesDone = 2 /\ reqs = {} /\ notifs = <<>>
    /\ Len(items) = 1 /\ ~items[1].completed
    /\ remote = {RowOf(1)} /\ ~RowOf(1).completed

\* C11: a click on delete leaves no item with that id in the collection at
\* once, and after any step in which the table no longer holds a row the
\* local user deleted, the collection holds no item with that id.
C11_DeletedStaysAbsent ==
    [][/\ \A i \in 1..Len(items) :
             DeleteClick(i) => items[i].id \notin IdsOf(items')
       /\ \A id \in 1..(nextId - 1) :
             (\A row \in remote' : row.id # id) => id \notin IdsOf(items')]_vars

\* some run of the effect has used up its retries
Exhausted == \E c \in 1..Len(closures) : closures[c].retryCount = maxRetries

\* C12: while the subscription is down, the retries of a run of the effect
\* are used up and no reconnect is pending, a tick of the poll interval
\* fetches the list.
C12_PollKeepsFetching ==
    (/\ mounted /\ connectionStatus # "connected"
     /\ Exhausted /\ reconnects = EmptyBag)
        => PollFetches

\* the list us holds one entry per key of the snapshot st that has a presence,
\* built from the first presence of the key
IsProjection(us, st) ==
    /\ Len(us) = Cardinality({i \in 1..Len(st) : st[i].presences # <<>>})
    /\ \A i \in 1..Len(st) :
          st[i].presences # <<>> =>
              \E j \in 1..Len(us) :
                  us[j] = [id |-> st[i].presences[1].user_id,
                           email |-> st[i].presences[1].email,
                           presence_ref |-> st[i].key,
                           online_at |-> st[i].presences[1].online_at]

\* C13: while the user list is mounted it is the projection of the membership
\* snapshot of the most recent sync alone: one entry per key that has a
\* presence, taken from the first presence of the key.
C13_ListIsLastSnapshot == ulMounted => IsProjection(users, presence)

\* the last sync held a key without presences and a key with two presences,
\* and the list shows exactly one user
C13_Witness ==
    /\ ulMounted /\ Len(presence) = 2 /\ Len(users) = 1
    /\ \E i \in 1..2 : Len(presence[i].presences) = 2
                       /\ presence[i].presences[1] # presence[i].presences[2]

\* C14: in the mounted user list an entry is flagged exactly when its id is
\* the id of the session's user, and nothing is flagged without current user.
C14_FlagIsCurrentUser ==
    ulMounted =>
        /\ \A i \in 1..Len(users) :
              IsYou(users[i]) <=> (session # "none" /\ users[i].id = session)
        /\ currentUser = "none" => \A i \in 1..Len(users) : ~IsYou(users[i])

\* two users are listed, one flagged and one not
C14_Witness ==
    /\ ulMounted /\ Len(users) = 2
    /\ \E i, j \in 1..2 : IsYou(users[i]) /\ ~IsYou(users[j])

\* two characters that differ at most in their case
SameLetter(c, d) ==
    \/ c = d
    \/ {c, d} = {"a", "A"}
    \/ {c, d} = {"b", "B"}
    \/ {c, d} = {"x", "X"}

\* the term occurs in the text, letter case ignored
ContainsIgnoringCase(text, term) ==
    \E i \in 0..(Len(text) - Len(term)) :
        \A k \in 1..Len(term) : SameLetter(text[i + k], term[k])

\* the name or the description of the product contains the search term
MentionsTerm(product) ==
    \/ ContainsIgnoringCase(product.name, searchTerm)
    \/ /\ product.description # Null
       /\ ContainsIgnoringCase(product.description, searchTerm)

InFiltered(product) ==
    \E i \in 1..Len(filteredProducts) : filteredProducts[i] = product

\* C15: every loaded product whose name or description contains the search
\* term, letter case ignored, and that the category filter lets through (no
\* category selected, or the product's category equal to the selected one)
\* is among the filtered products.
C15_SearchMatchShown ==
    \A i \in 1..Len(products) :
        (/\ MentionsTerm(products[i])
         /\ \/ selectedCategory = <<>>
            \/ products[i].category = selectedCategory)
        => InFiltered(products[i])

\* C15 as stated: every loaded product whose name or description contains the
\* search term, letter case ignored, is among the filtered products.
C15_EveryMatchShown ==
    \A i \in 1..Len(products) :
        MentionsTerm(products[i]) => InFiltered(products[i])

\* a term is typed and a category selected; a shown product contains the term
\* only when letter case is ignored
C15_Witness ==
    /\ searchTerm # <<>> /\ selectedCategory # <<>>
    /\ \E i \in 1..Len(products) :
          /\ InFiltered(products[i])
          /\ ~includes(products[i].name, searchTerm)
          /\ products[i].description = Null

\* C16: with a category selected, every product whose category is not exactly
\* the selected one (a product without category included) is left out of the
\* filtered products; with no category selected the filtered products are
\* exactly those containing the search term.
C16_CategoryFilterExact ==
    /\ selectedCategory # <<>> =>
          \A i \in 1..Len(products) :
              products[i].category # selectedCategory => ~InFiltered(products[i])
    /\ selectedCategory = <<>> =>
          \A i \in 1..Len(products) :
              InFiltered(products[i]) <=> MentionsTerm(products[i])

\* a category is selected; one product containing the term has it and is
\* shown, another containing the term has no category and is left out
C16_Witness ==
    /\ selectedCategory # <<>>
    /\ \E i, j \in 1..Len(products) :
          /\ products[i].category = selectedCategory
          /\ InFiltered(products[i])
          /\ products[j].category = Null
          /\ MentionsTerm(products[j])
          /\ ~InFiltered(products[j])

\* C18: a remote delete of a product is sent only by a click whose confirm
\* prompt was accepted; a click whose prompt is declined sends nothing and
\* leaves the deleting set, the products and the table as they were.
C18_DeleteNeedsConfirm ==
    [][/\ \A i \in 1..MaxProducts :
             DeleteProductClick(i, FALSE) =>
                UNCHANGED <<catReqs, deletingProducts, products, catalog,
                            catNotifs, catFetches>>
       /\ \A r \in catReqs' \ catReqs :
             r.st = "sent" =>
                \E i \in 1..Len(filteredProducts) :
                    /\ DeleteProductClick(i, TRUE)
                    /\ r.id = filteredProducts[i].id]_vars

\* products are loaded, one prompt was declined and one accepted: exactly one
\* delete is in flight
C18_Witness ==
    /\ products # <<>>
    /\ prompts \in {<<FALSE, TRUE>>, <<TRUE, FALSE>>}
    /\ Cardinality(catReqs) = 1
    /\ Len(deletingProducts) = 1

\* C17: when the rest of handleSubmit runs in the rendered form, loading is
\* false afterwards, whether the call was accepted or not, and after a
\* rejected sign-in or sign-up the message is the message of the provider's
\* error, unchanged.
C17_ErrorShownVerbatim ==
    [][\A r \in authReqs :
          (handleSubmitResume(r) /\ authMounted) =>
              /\ authLoading' = FALSE
              /\ r.st = "error" => message' = r.message]_vars

\* the form shows a provider's error message and is ready for the next submit
C17_Witness ==
    /\ authMounted /\ ~authLoading
    /\ authReqs = {}
    /\ message \in ProviderMessages

\* C19: every delete request the view sends is for a shown item whose owner
\* is the current user, while the completion button acts on every shown item
\* that is not being processed, whoever owns it.
C19_DeleteOwnToggleAny ==
    /\ [](\A i \in 1..Len(items) :
             (budget > 0 /\ ~isProcessing(items[i].id)) => ENABLED ToggleClick(i))
    /\ [][\A r \in reqs' \ reqs :
             (r.op = "delete" /\ r.st = "sent") =>
                \E i \in 1..Len(items) :
                    /\ items[i].id = r.id
                    /\ items[i].user_id = Me]_vars

\* a delete of an own item is in flight while an item of the other user is
\* shown
C19_Witness ==
    /\ \E r \in reqs : r.op = "delete" /\ r.st = "sent"
    /\ \E i \in 1..Len(items) : items[i].user_id = Other

\* C20: the handler of an INSERT notification leaves the collection as it is
\* and calls fetchItems; an id enters the collection only with the result of a
\* fetch (or when a failed delete puts back the item it had taken out), and
\* every shown item carries the joined owner email, which only the rows of a
\* fetch result have.
C20_InsertOnlyByFetch ==
    /\ [](\A i \in 1..Len(items) :
             /\ "profiles" \in DOMAIN items[i]
             /\ items[i].profiles.email = Email(items[i].user_id))
    /\ [][/\ (/\ notifs # <<>>
              /\ Head(notifs).eventType = "INSERT"
              /\ notifs' = Tail(notifs))
             => /\ items' = items
                /\ fetches' = fetchItems
          /\ \A id \in IdsOf(items') \ IdsOf(items) :
                \/ \E f \in InFlight :
                      /\ fetchItemsResume(f)
                      /\ f.st = "data" /\ id \in IdsOf(f.data)
                \/ \E r \in reqs :
                      /\ deleteItemResume(r)
                      /\ r.id = id /\ r.st # "ok"]_vars

\* an item inserted by the other user is shown, its notification handled
C20_Witness ==
    /\ notifs = <<>>
    /\ \E i \in 1..Len(items) :
          /\ items[i].item = <<"b">>
          /\ items[i].profiles.email = Email(Other)

\* the reconnect timers set in this step
Scheduled == BagToSet(reconnects' (-) reconnects)

\* the delay of the reconnect that a failure of live channel ch would schedule
NextDelay(ch) == 2000 * (closures[channels[ch].owner].retryCount + 1)

\* C21: a reconnect is scheduled 2000*k ms ahead with k in 1..maxRetries, and
\* after a SUBSCRIBED status or a received notification (the mounted view
\* showing 'connected') the count is back at 0: the next failure of a
\* subscribed-to channel schedules its reconnect 2000 ms ahead.
C21_BackoffLinear ==
    /\ [](mounted /\ connectionStatus = "connected" =>
             \A ch \in LiveChannels : NextDelay(ch) = 2000)
    /\ [][\A t \in Scheduled : \E k \in 1..maxRetries : t.delay = 2000 * k]_vars

\* C22: no two items of the visible collection have the same id.
C22_NoDuplicateIds ==
    \A i, j \in 1..Len(items) : i # j => items[i].id # items[j].id

\* nothing is on its way: every notification is delivered, every request,
\* fetch and timer has completed
Quiescent ==
    /\ notifs = <<>>
    /\ reqs = {}
    /\ fetches = EmptyBag
    /\ timers = {}

\* C23: once nothing is on its way, the visible collection has the ids of the
\* rows of the remote table and shows each row's completion flag.
C23_QuiescentMatchesRemote ==
    Quiescent =>
        /\ IdsOf(items) = {row.id : row \in remote}
        /\ \A i \in 1..Len(items) : \A row \in remote :
              row.id = items[i].id => row.completed = items[i].completed

\* C24: the visible collection is ordered by creation timestamp, newest
\* first.
C24_NewestFirst ==
    \A i, j \in 1..Len(items) :
        i < j => items[i].created_at >= items[j].created_at

\* nothing of the shell is on its way: getSession has resumed and every event
\* has reached the listener
ShellSettled == getSessionReq.st = "done" /\ authEvents = <<>>

\* C25: once getSession has resumed and every auth event is handled, the user
\* of the shell is the user of the provider's latest session (null after a
\* sign-out, whatever the order of the two), and the views are rendered only
\* with a user.
C25_UserFollowsSession ==
    /\ ShellSettled => appUser = providerSession
    /\ ViewsRendered => appUser # "none"

\* C26: while the form is hidden no product is being edited, so that a form
\* opened by the header button holds no product to update.
C26_HiddenFormNotEditing == ~showForm => editingProduct = <<>>

\* C27: the view holds at most one live change-feed channel, and no
\* notification is handled by two channels.
C27_OneLiveChannel ==
    /\ Cardinality(LiveChannels) <= 1
    /\ Cardinality(seenBy) <= 1

\* C28: when the rest of a fetch runs, the loading flag is cleared; a failed
\* select leaves the collection as it was, an answered one replaces it by the
\* snapshot, or by the empty collection when the snapshot is null.  The same
\* holds for the products of the catalog.
C28_FetchReplacesOrKeeps ==
    [][/\ \A f \in InFlight :
             fetchItemsResume(f) =>
                /\ loading' = FALSE
                /\ f.st = "sent" => items' = items
                /\ f.st = "data" => items' = f.data
                /\ f.st = "null" => items' = <<>>
       /\ \A f \in BagToSet(catFetches) :
             fetchProductsResume(f) =>
                /\ catLoading' = FALSE
                /\ f.st = "sent" => products' = products
                /\ f.st = "data" => products' = f.data
                /\ f.st = "null" => products' = <<>>]_vars

\* a refresh of the shown list failed or brought a null snapshot, and so did
\* the last fetch of the catalog: loading is cleared on both, the table rows
\* are not shown
C28_Witness ==
    /\ budget < MaxOps /\ fetches = EmptyBag /\ ~loading
    /\ remote # {} /\ items = <<>>
    /\ catFetches = EmptyBag /\ ~catLoading
    /\ catalog # {} /\ products = <<>>

\* the update and delete requests of an item that have not been resumed
MutationsOf(id) == {r \in reqs : r.op \in {"update", "delete"} /\ r.id = id}

\* C29: a toggle or a delete is issued only for an item whose id is in neither
\* set, the id stays marked while its request is in flight, so an item has at
\* most one mutation in flight; and a marked id is unmarked after its request
\* has settled, whether the store accepted or rejected it.
C29_OneMutationPerItem ==
    /\ [][\A i \in 1..Len(items) :
             ToggleClick(i) \/ DeleteClick(i) => ~isProcessing(items[i].id)]_vars
    /\ [](\A id \in Ids :
             /\ MutationsOf(id) # {} => isProcessing(id)
             /\ Cardinality(MutationsOf(id)) <= 1)
    /\ \A id \in Ids : isProcessing(id) ~> ~isProcessing(id)

\* an item is marked, its request was rejected and resumed, and the timer that
\* unmarks it is pending
C29_Witness ==
    \E t \in timers :
        /\ t.kind \in {"clearUpdating", "clearDeleting"}
        /\ isProcessing(t.id)
        /\ MutationsOf(t.id) = {}
        /\ \/ \E u \in timers : u.kind = "fetch" /\ u.id = t.id
                                  /\ u.cause = "updateError"
           \/ t.kind = "clearDeleting" /\ HasRow(t.id)

\* C30: the handler of an UPDATE or DELETE notification leaves the items of
\* every other id as they were and in their order; on UPDATE the number of
\* items stays, and an item of the notified id takes the fields of the payload
\* and keeps its other fields (the joined profiles); on DELETE no item of the
\* notified id remains; a notification for an id that is not shown changes
\* nothing.
C30_OnlyNotifiedItemChanges ==
    [][OnChange /\ Head(notifs).eventType \in {"UPDATE", "DELETE"} =>
          LET payload == Head(notifs)
          IN  /\ FilterOutId(items', payload.id) = FilterOutId(items, payload.id)
              /\ payload.id \notin IdsOf(items) => items' = items
              /\ payload.eventType = "DELETE" => payload.id \notin IdsOf(items')
              /\ payload.eventType = "UPDATE" =>
                    /\ Len(items') = Len(items)
                    /\ \A i \in 1..Len(items) :
                          items[i].id = payload.id =>
                             /\ DOMAIN items'[i] = DOMAIN items[i]
                             /\ \A f \in DOMAIN items[i] :
                                   items'[i][f] = IF f \in DOMAIN payload.new
                                                  THEN payload.new[f]
                                                  ELSE items[i][f]]_vars

\* two updates of the one row were published and the first notification was
\* handled: the item is shown completed with its owner's email while the row
\* is pending again and the second notification waits
C30_Witness ==
    /\ budget = MaxOps - 2
    /\ Len(notifs) = 1 /\ Head(notifs).eventType = "UPDATE"
    /\ reqs = {} /\ fetches = EmptyBag
    /\ \E i \in 1..Len(items) :
          /\ items[i].id = Head(notifs).id
          /\ items[i].completed /\ ~Head(notifs).new.completed
          /\ items[i].profiles.email = Email(items[i].user_id)
====
